---- MODULE Spec2Model ----
(***************************************************************************)
(* ACAN2517: host-side driver of the MCP2517FD CAN controller (CAN 2.0B).  *)
(* Model of src/src/ACAN2517.cpp, build without ARDUINO_ARCH_ESP32 (the    *)
(* interrupt routine calls isr_core directly, LOW-level trigger).          *)
(*                                                                         *)
(* The driver's fields keep their source names.  The controller is the     *)
(* environment: its two FIFOs and the TXQ hold 16-byte message objects,    *)
(* and the registers the driver reads are computed from that state.        *)
(* Every value stays below 2^31 (the integers of TLC): identifiers are     *)
(* 29 bits wide and payload words are drawn below 2^31.                    *)
(***************************************************************************)
EXTENDS Integers, Sequences, FiniteSets, TLC

(***************************************************************************)
(* Bounds of the model                                                     *)
(***************************************************************************)
MaxDriverTransmitFIFOSize == 2
MaxDriverReceiveFIFOSize == 1
MaxControllerTransmitFIFOSize == 2
MaxControllerReceiveFIFOSize == 1
MaxControllerTXQSize == 1
MaxFrames == 3
MaxIdBit == 27
MaxLen == 9
MaxPolls == 2
MaxEchoBits == 3
MaxRamWords == 2
MaxPermits == 2
\* the host RX FIFO and FIFO1 hold at most so many frames where reception is looked at
MaxReceiveDepth == 2

(***************************************************************************)
(* Register addresses                                                      *)
(***************************************************************************)
C1CON_REGISTER == 0
C1NBTCFG_REGISTER == 4
C1INT_REGISTER == 28
C1TXQCON_REGISTER == 80
C1TXQSTA_REGISTER == 84
C1TXQUA_REGISTER == 88
OSC_REGISTER == 3584
IOCON_REGISTER == 3588
RAM_BASE == 1024
receiveFIFOIndex == 1

C1FIFOCON_REGISTER(inFIFOIndex) == 92 + 12 * (inFIFOIndex - 1)

C1FIFOSTA_REGISTER(inFIFOIndex) == 96 + 12 * (inFIFOIndex - 1)

C1FIFOUA_REGISTER(inFIFOIndex) == 100 + 12 * (inFIFOIndex - 1)

C1FLTCON_REGISTER(inFilterIndex) == 464 + inFilterIndex

C1FLTOBJ_REGISTER(inFilterIndex) == 496 + 8 * inFilterIndex

C1MASK_REGISTER(inFilterIndex) == 500 + 8 * inFilterIndex

(***************************************************************************)
(* Bit operations on naturals below 2^31                                   *)
(***************************************************************************)
RECURSIVE Pow2(_)
Pow2(n) == IF n = 0 THEN 1 ELSE 2 * Pow2(n - 1)

RECURSIVE BitAnd(_, _)
BitAnd(a, b) ==
  IF a = 0 \/ b = 0 THEN 0
  ELSE (IF a % 2 = 1 /\ b % 2 = 1 THEN 1 ELSE 0) + 2 * BitAnd(a \div 2, b \div 2)

RECURSIVE BitOr(_, _)
BitOr(a, b) ==
  IF a = 0 THEN b
  ELSE IF b = 0 THEN a
  ELSE (IF a % 2 = 1 \/ b % 2 = 1 THEN 1 ELSE 0) + 2 * BitOr(a \div 2, b \div 2)

Shr(x, n) == x \div Pow2(n)

Shl(x, n) == x * Pow2(n)

\* (uint8_t) (x >> (8 * k))
ByteOf(x, k) == Shr(x, 8 * k) % 256

\* the four bytes of a 32-bit word, least significant first
WordBytes(x) == << ByteOf(x, 0), ByteOf(x, 1), ByteOf(x, 2), ByteOf(x, 3) >>

\* result |= buff[i] << 0 ; |= buff[i+1] << 8 ; |= buff[i+2] << 16 ; |= buff[i+3] << 24
WordOfBytes(buff, i) ==
  BitOr(BitOr(BitOr(Shl(buff[i], 0), Shl(buff[i + 1], 8)), Shl(buff[i + 2], 16)),
        Shl(buff[i + 3], 24))

(***************************************************************************)
(* CANMessage and the frame codec                                          *)
(***************************************************************************)
\* the send indexes tryToSend is called with: normal FIFO, TXQ, a reserved one
SendIndexes == {0, 255, 7}

\* a default-constructed CANMessage
DefaultMessage ==
  [id |-> 0, ext |-> FALSE, rtr |-> FALSE, len |-> 0, idx |-> 0, data32 |-> << 0, 0 >>]

\* identifier word of an extended frame, as sent
EncodeIdentifier(id) ==
  BitOr(BitAnd(Shr(id, 18), 2047), Shl(BitAnd(id, 262143), 11))

\* variant: the low 11 bits are put back one position too low
DecodeIdentifierWrongShift(tempID) ==
  BitOr(BitAnd(Shr(tempID, 11), 262143), Shl(BitAnd(tempID, 2047), 17))

\* identifier of an extended frame, from the identifier word received
DecodeIdentifier(tempID) ==
  BitOr(BitAnd(Shr(tempID, 11), 262143), Shl(BitAnd(tempID, 2047), 18))

\* lines 475..481: the word of DLC, RTR and IDE
ControlWord(inMessage) ==
  BitOr(BitOr(IF inMessage.len > 8 THEN 8 ELSE inMessage.len,
              IF inMessage.rtr THEN Shl(1, 5) ELSE 0),
        IF inMessage.ext THEN Shl(1, 4) ELSE 0)

\* lines 469..472: the identifier word
IdentifierWord(inMessage) ==
  IF inMessage.ext THEN EncodeIdentifier(inMessage.id) ELSE inMessage.id

\* the four bytes of a word, most significant first
WordBytesBigEndian(x) == << ByteOf(x, 3), ByteOf(x, 2), ByteOf(x, 1), ByteOf(x, 0) >>

\* variant: the identifier word is written most significant byte first
MessageObjectBigEndian(inMessage) ==
  WordBytesBigEndian(IdentifierWord(inMessage)) \o WordBytes(ControlWord(inMessage))
    \o WordBytes(inMessage.data32[1]) \o WordBytes(inMessage.data32[2])

\* the 16 bytes buff[2..17] written after the write command
MessageObject(inMessage) ==
  WordBytes(IdentifierWord(inMessage)) \o WordBytes(ControlWord(inMessage))
    \o WordBytes(inMessage.data32[1]) \o WordBytes(inMessage.data32[2])

\* variant: the length keeps bit 4 of the control word
FrameKeepsLenBit4(rawId, data, word0, word1) ==
  [id |-> IF BitAnd(data, Shl(1, 4)) # 0 THEN DecodeIdentifier(rawId) ELSE rawId,
   ext |-> BitAnd(data, Shl(1, 4)) # 0,
   rtr |-> BitAnd(data, Shl(1, 5)) # 0,
   len |-> BitAnd(data, 31),
   idx |-> BitAnd(Shr(data, 11), 31),
   data32 |-> << word0, word1 >>]

\* lines 783..793: the CANMessage of the four words read
Frame(rawId, data, word0, word1) ==
  [id |-> IF BitAnd(data, Shl(1, 4)) # 0 THEN DecodeIdentifier(rawId) ELSE rawId,
   ext |-> BitAnd(data, Shl(1, 4)) # 0,
   rtr |-> BitAnd(data, Shl(1, 5)) # 0,
   len |-> BitAnd(data, 15),
   idx |-> BitAnd(Shr(data, 11), 31),
   data32 |-> << word0, word1 >>]

\* the CANMessage built from the 16 bytes buff[2..17] read after the read command
DecodeMessageObject(buff) ==
  Frame(WordOfBytes(buff, 1), WordOfBytes(buff, 5), WordOfBytes(buff, 9),
        WordOfBytes(buff, 13))

(***************************************************************************)
(* Host-side FIFOs (ACANBuffer): mSize slots, mBuffer the frames held,     *)
(* oldest first                                                            *)
(***************************************************************************)
initWithSize(inSize) == [mSize |-> inSize, mBuffer |-> << >>]

count(buffer) == Len(buffer.mBuffer)

size(buffer) == buffer.mSize

\* append: false, and nothing stored, when the buffer is full
append(buffer, inMessage) ==
  IF count(buffer) < size(buffer)
  THEN [ok |-> TRUE, buffer |-> [buffer EXCEPT !.mBuffer = Append(@, inMessage)]]
  ELSE [ok |-> FALSE, buffer |-> buffer]

\* variant: the newest frame is taken
removeNewest(buffer, outMessage) ==
  IF count(buffer) > 0
  THEN [ok |-> TRUE, message |-> buffer.mBuffer[count(buffer)],
        buffer |-> [buffer EXCEPT !.mBuffer = SubSeq(@, 1, Len(@) - 1)]]
  ELSE [ok |-> FALSE, message |-> outMessage, buffer |-> buffer]

\* remove: false, and outMessage left as it was, when the buffer is empty
remove(buffer, outMessage) ==
  IF count(buffer) > 0
  THEN [ok |-> TRUE, message |-> Head(buffer.mBuffer),
        buffer |-> [buffer EXCEPT !.mBuffer = Tail(@)]]
  ELSE [ok |-> FALSE, message |-> outMessage, buffer |-> buffer]

(***************************************************************************)
(* The controller, as the driver sees it through SPI.  s is the record of  *)
(* the driver's fields and the controller's state; s.spi is the list of    *)
(* SPI accesses of the operation being executed.                           *)
(***************************************************************************)
ZeroObject == [i \in 1..16 |-> 0]

\* C1FIFOSTA(2) bit 0 (TFNRFNIF): transmit FIFO not full
TxFIFONotFull(s) == Len(s.fifo2) < s.txSize

\* C1FIFOSTA(1) bit 0 (TFNRFNIF): receive FIFO not empty
RxFIFONotEmpty(s) == Len(s.fifo1) > 0

\* C1TXQSTA bit 0 (TXQNIF): TXQ not full
TXQNotFullBit(s) == Len(s.txq) < s.txqSize

\* C1INT bit 1 (RXIF): an enabled receive FIFO interrupt is pending
RXIF(s) == s.con1 % 2 = 1 /\ RxFIFONotEmpty(s)

\* C1INT bit 0 (TXIF): an enabled transmit FIFO interrupt is pending
TXIF(s) == s.con2 % 2 = 1 /\ TxFIFONotFull(s)

\* the layout of the message RAM: TXQ, then FIFO1, then FIFO2, 16 bytes an object
UserAddress(s, inRegisterAddress) ==
  CASE inRegisterAddress = C1TXQUA_REGISTER -> 16 * s.uaq
    [] inRegisterAddress = C1FIFOUA_REGISTER(1) -> 16 * (s.txqSize + s.ua1)
    [] inRegisterAddress = C1FIFOUA_REGISTER(2) -> 16 * (s.txqSize + s.rxSize + s.ua2)
    [] OTHER -> 0

\* the value of a byte register
ByteRegisterValue(s, inRegisterAddress) ==
  CASE inRegisterAddress = C1FIFOSTA_REGISTER(2) -> IF TxFIFONotFull(s) THEN 1 ELSE 0
    [] inRegisterAddress = C1FIFOSTA_REGISTER(1) -> IF RxFIFONotEmpty(s) THEN 1 ELSE 0
    [] inRegisterAddress = C1TXQSTA_REGISTER -> IF TXQNotFullBit(s) THEN 1 ELSE 0
    [] inRegisterAddress = C1FIFOCON_REGISTER(1) -> s.con1
    [] inRegisterAddress = C1FIFOCON_REGISTER(2) -> s.con2
    [] OTHER -> 0

\* the controller's reaction to a byte written to a register
ControllerWriteByte(s, inRegisterAddress, inValue) ==
  CASE inRegisterAddress = C1FIFOCON_REGISTER(1) -> [s EXCEPT !.con1 = inValue]
    [] inRegisterAddress = C1FIFOCON_REGISTER(2) -> [s EXCEPT !.con2 = inValue]
    [] inRegisterAddress = C1FIFOCON_REGISTER(1) + 1 ->
         \* UINC on the receive FIFO: the object at the user address is released
         IF inValue % 2 = 1 /\ Len(s.fifo1) > 0
         THEN [s EXCEPT !.fifo1 = Tail(@), !.ua1 = (@ + 1) % s.rxSize]
         ELSE s
    [] inRegisterAddress = C1FIFOCON_REGISTER(2) + 1 ->
         \* UINC | TXREQ on the transmit FIFO: the object written is queued
         IF inValue % 2 = 0 THEN s
         ELSE IF Len(s.fifo2) < s.txSize
         THEN [s EXCEPT !.fifo2 = Append(@, s.staged), !.ua2 = (@ + 1) % s.txSize]
         ELSE IF s.overrun = "overwrite"
         THEN [s EXCEPT !.fifo2 = << s.staged >> \o Tail(@)]
         ELSE s
    [] inRegisterAddress = C1TXQCON_REGISTER + 1 ->
         IF inValue % 2 = 1 /\ Len(s.txq) < s.txqSize
         THEN [s EXCEPT !.txq = Append(@, s.staged), !.uaq = (@ + 1) % s.txqSize]
         ELSE s
    \* configuration: FSIZE (bits 0..4 of byte 3) is the number of objects minus one
    [] inRegisterAddress = C1FIFOCON_REGISTER(1) + 3 -> [s EXCEPT !.rxSize = (inValue % 32) + 1]
    [] inRegisterAddress = C1FIFOCON_REGISTER(2) + 3 -> [s EXCEPT !.txSize = (inValue % 32) + 1]
    [] inRegisterAddress = C1TXQCON_REGISTER + 3 -> [s EXCEPT !.txqFSize = (inValue % 32) + 1]
    \* C1CON byte 2, as the driver uses it: non-zero enables the TXQ
    [] inRegisterAddress = C1CON_REGISTER + 2 ->
         [s EXCEPT !.txqSize = IF inValue # 0 THEN s.txqFSize ELSE 0]
    \* C1FLTCON: bit 7 enables the filter
    [] inRegisterAddress \in {C1FLTCON_REGISTER(k) : k \in 0..31} ->
         [s EXCEPT !.filters = IF inValue >= 128
                               THEN @ \cup {inRegisterAddress - C1FLTCON_REGISTER(0)}
                               ELSE @ \ {inRegisterAddress - C1FLTCON_REGISTER(0)}]
    [] OTHER -> s

\* the controller's reaction to the reset instruction: registers and FIFOs as at power-on
ControllerReset(s) ==
  [s EXCEPT !.fifo1 = << >>, !.fifo2 = << >>, !.txq = << >>,
            !.ua1 = 0, !.ua2 = 0, !.uaq = 0, !.con1 = 0, !.con2 = 0,
            !.rxSize = 1, !.txSize = 1, !.txqSize = 1, !.txqFSize = 1, !.filters = {}]

(***************************************************************************)
(* Register access, first and second level (no transaction taken)          *)
(***************************************************************************)
\* an SPI access: << kind, register or RAM address, value read or written >>
Access(kind, address, value) == << kind, address, value >>

Logged(s, kind, address, value) ==
  [s EXCEPT !.spi = Append(@, Access(kind, address, value))]

writeByteRegisterSPI(s, inRegisterAddress, inValue) ==
  ControllerWriteByte(Logged(s, "writeByte", inRegisterAddress, inValue),
                      inRegisterAddress, inValue)

readByteRegisterSPI(s, inRegisterAddress) ==
  Logged(s, "readByte", inRegisterAddress, ByteRegisterValue(s, inRegisterAddress))

readRegisterSPI(s, inRegisterAddress) ==
  Logged(s, "readWord", inRegisterAddress, UserAddress(s, inRegisterAddress))

beginTransaction(s) == Logged(s, "beginTransaction", 0, 0)

endTransaction(s) == Logged(s, "endTransaction", 0, 0)

noInterrupts(s) == Logged(s, "noInterrupts", 0, 0)

interrupts(s) == Logged(s, "interrupts", 0, 0)

(***************************************************************************)
(* SEND FRAME                                                              *)
(***************************************************************************)
\* the write burst of the message object at ramAddress
WriteObject(s, ramAddress, object) ==
  [Logged(s, "writeObject", ramAddress, object) EXCEPT !.staged = object]

\* the write burst of a message object at ramAddress, then UINC | TXREQ
WriteObjectAndCommit(s, ramAddress, inMessage, conRegister) ==
  writeByteRegisterSPI(WriteObject(s, ramAddress, MessageObject(inMessage)),
                       conRegister + 1, 3)

Committed(s, inMessage) == [s EXCEPT !.committed = Append(@, inMessage)]

appendInControllerTxFIFO(s, inMessage) ==
  Committed(WriteObjectAndCommit(readRegisterSPI(s, C1FIFOUA_REGISTER(2)),
                                 RAM_BASE + UserAddress(s, C1FIFOUA_REGISTER(2)),
                                 inMessage, C1FIFOCON_REGISTER(2)),
            inMessage)

\* line 448: r is what append returns
AppendToDriverTransmitBuffer(s, r) ==
  [s EXCEPT !.mDriverTransmitBuffer = r.buffer, !.result = r.ok]

\* lines 454..459: status is the value of C1FIFOSTA(2) read
EnableNotFullInterrupt(s, status) ==
  IF BitAnd(status, 1) = 0
  THEN [writeByteRegisterSPI(s, C1FIFOCON_REGISTER(2), BitOr(Shl(1, 7), 1))
          EXCEPT !.mControllerTxFIFOFull = TRUE]
  ELSE s

\* lines 453..459
ReadStatusOfTxFIFO(s) ==
  EnableNotFullInterrupt(readByteRegisterSPI(s, C1FIFOSTA_REGISTER(2)),
                         ByteRegisterValue(s, C1FIFOSTA_REGISTER(2)))

Returns(s, result) == [s EXCEPT !.result = result]

\* variant: reports true even when the host FIFO refuses the frame
enterInTransmitBufferAlwaysTrue(s, inMessage) ==
  IF s.mControllerTxFIFOFull
  THEN Returns(AppendToDriverTransmitBuffer(s, append(s.mDriverTransmitBuffer, inMessage)),
               TRUE)
  ELSE Returns(ReadStatusOfTxFIFO(appendInControllerTxFIFO(s, inMessage)), TRUE)

\* variant: the status read after the commit is ignored
enterInTransmitBufferNeverFull(s, inMessage) ==
  IF s.mControllerTxFIFOFull
  THEN AppendToDriverTransmitBuffer(s, append(s.mDriverTransmitBuffer, inMessage))
  ELSE Returns(readByteRegisterSPI(appendInControllerTxFIFO(s, inMessage),
                                   C1FIFOSTA_REGISTER(2)), TRUE)

\* variant: the frame goes to the host FIFO whatever the flag says
enterInTransmitBufferAlwaysQueues(s, inMessage) ==
  AppendToDriverTransmitBuffer(s, append(s.mDriverTransmitBuffer, inMessage))

enterInTransmitBuffer(s, inMessage) ==
  IF s.mControllerTxFIFOFull
  THEN AppendToDriverTransmitBuffer(s, append(s.mDriverTransmitBuffer, inMessage))
  ELSE Returns(ReadStatusOfTxFIFO(appendInControllerTxFIFO(s, inMessage)), TRUE)

\* lines 529..586: the frame is written at the user address of the TXQ
appendInTXQ(s, inMessage) ==
  WriteObjectAndCommit(readRegisterSPI(s, C1TXQUA_REGISTER),
                       RAM_BASE + UserAddress(s, C1TXQUA_REGISTER),
                       inMessage, C1TXQCON_REGISTER)

\* status is the value of C1TXQSTA read at line 528
SendIfTXQNotFull(s, status, inMessage) ==
  IF BitAnd(status, 1) # 0 THEN Returns(appendInTXQ(s, inMessage), TRUE)
  ELSE Returns(s, FALSE)

\* variant: the frame is written whatever C1TXQSTA says
sendViaTXQIgnoresStatus(s, inMessage) ==
  IF ~ s.mUsesTXQ THEN Returns(s, FALSE)
  ELSE Returns(appendInTXQ(readByteRegisterSPI(s, C1TXQSTA_REGISTER), inMessage), TRUE)

sendViaTXQ(s, inMessage) ==
  IF ~ s.mUsesTXQ THEN Returns(s, FALSE)
  ELSE SendIfTXQNotFull(readByteRegisterSPI(s, C1TXQSTA_REGISTER),
                        ByteRegisterValue(s, C1TXQSTA_REGISTER), inMessage)

\* variant: every index other than 0 is routed to the TXQ
RouteAnyIndexToTXQ(s, inMessage) ==
  IF inMessage.idx = 0 THEN enterInTransmitBuffer(s, inMessage)
  ELSE sendViaTXQ(s, inMessage)

\* lines 430..435
Route(s, inMessage) ==
  IF inMessage.idx = 0 THEN enterInTransmitBuffer(s, inMessage)
  ELSE IF inMessage.idx = 255 THEN sendViaTXQ(s, inMessage)
  ELSE Returns(s, FALSE)

tryToSend(s, inMessage) == endTransaction(Route(beginTransaction(s), inMessage))

(***************************************************************************)
(* RECEIVE FRAME                                                           *)
(***************************************************************************)
\* variant: noInterrupts on every platform
BeginExclusionNoInterrupts(s) == noInterrupts(s)

\* lines 595..599 and 612..616: the exclusion of the platform
BeginExclusion(s) == IF s.platform = "worker" THEN beginTransaction(s) ELSE noInterrupts(s)

\* lines 601..605 and 621..625
EndExclusion(s) == IF s.platform = "worker" THEN endTransaction(s) ELSE interrupts(s)

available(s) ==
  Returns(EndExclusion(BeginExclusion(s)), count(s.mDriverReceiveBuffer) > 0)

\* variant: the not-empty interrupt is enabled again whatever remove returned
RemovedAlwaysEnables(s, r) ==
  writeByteRegisterSPI(
    [s EXCEPT !.mDriverReceiveBuffer = r.buffer,
              !.rxSource = IF r.ok THEN Tail(@) ELSE @,
              !.outMessage = r.message,
              !.outSource = IF r.ok THEN Head(s.rxSource) ELSE ZeroObject,
              !.returned = IF r.ok THEN Append(@, r.message) ELSE @,
              !.result = r.ok],
    C1FIFOCON_REGISTER(receiveFIFOIndex), 1)

\* lines 617..620: r is what remove returns
Removed(s, r) ==
  IF r.ok
  THEN writeByteRegisterSPI(
         [s EXCEPT !.mDriverReceiveBuffer = r.buffer, !.rxSource = Tail(@),
                   !.outMessage = r.message, !.outSource = Head(s.rxSource),
                   !.returned = Append(@, r.message), !.result = TRUE],
         C1FIFOCON_REGISTER(receiveFIFOIndex), 1)
  ELSE [s EXCEPT !.outMessage = r.message, !.outSource = ZeroObject, !.result = FALSE]

receive(s) ==
  EndExclusion(Removed(BeginExclusion(s), remove(s.mDriverReceiveBuffer, DefaultMessage)))

\* a callback that is not installed
NULL == 0

\* mCallBackFunctionArray before begin allocates it
NoArray == << >>

\* lines 636..639: the filter-match callback is called with the index of the filter
CallFilterMatchCallBack(s, inFilterMatchCallBack) ==
  IF s.result /\ inFilterMatchCallBack # NULL
  THEN Logged(s, "inFilterMatchCallBack", inFilterMatchCallBack, s.outMessage.idx)
  ELSE s

\* lines 640..643
callBackFunction(s) ==
  IF s.mCallBackFunctionArray = NoArray THEN NULL
  ELSE s.mCallBackFunctionArray[s.outMessage.idx + 1]

\* lines 644..646: the callback of the filter is called with the frame
CallCallBackFunction(s, routine) ==
  IF s.result /\ routine # NULL
  THEN Logged(s, "callBackFunction", routine, s.outMessage)
  ELSE s

\* variant: the callback of the filter is called before the filter-match callback
dispatchReceivedMessageCallBackFirst(s, inFilterMatchCallBack) ==
  CallFilterMatchCallBack(CallCallBackFunction(receive(s), callBackFunction(receive(s))),
                          inFilterMatchCallBack)

dispatchReceivedMessage(s, inFilterMatchCallBack) ==
  CallCallBackFunction(CallFilterMatchCallBack(receive(s), inFilterMatchCallBack),
                       callBackFunction(receive(s)))

(***************************************************************************)
(* INTERRUPT SERVICE ROUTINES                                              *)
(***************************************************************************)
\* lines 727..728: r is what remove returns
RemoveAndCommit(s, r) ==
  appendInControllerTxFIFO([s EXCEPT !.mDriverTransmitBuffer = r.buffer], r.message)

\* lines 730..734
DisableNotFullInterrupt(s) ==
  IF count(s.mDriverTransmitBuffer) = 0
  THEN [writeByteRegisterSPI(s, C1FIFOCON_REGISTER(2), Shl(1, 7))
          EXCEPT !.mControllerTxFIFOFull = FALSE]
  ELSE s

\* variant: the newest frame of the host FIFO is taken
transmitInterruptNewestFirst(s) ==
  DisableNotFullInterrupt(
    RemoveAndCommit(s, removeNewest(s.mDriverTransmitBuffer, DefaultMessage)))

\* variant: the flag is cleared without the write that disables the interrupt
ClearFlagOnly(s) ==
  IF count(s.mDriverTransmitBuffer) = 0 THEN [s EXCEPT !.mControllerTxFIFOFull = FALSE]
  ELSE s

transmitInterruptKeepsEnable(s) ==
  ClearFlagOnly(RemoveAndCommit(s, remove(s.mDriverTransmitBuffer, DefaultMessage)))

\* variant: the interrupt is disabled whatever the host FIFO still holds
DisableAlways(s) ==
  [writeByteRegisterSPI(s, C1FIFOCON_REGISTER(2), Shl(1, 7))
     EXCEPT !.mControllerTxFIFOFull = FALSE]

transmitInterruptAlwaysClears(s) ==
  DisableAlways(RemoveAndCommit(s, remove(s.mDriverTransmitBuffer, DefaultMessage)))

\* variant: the interrupt is disabled and no frame is taken from the host FIFO
transmitInterruptDisablesOnly(s) == DisableAlways(s)

transmitInterrupt(s) ==
  DisableNotFullInterrupt(
    RemoveAndCommit(s, remove(s.mDriverTransmitBuffer, DefaultMessage)))

\* the 16 bytes at the user address of FIFO1: its oldest object
ObjectAtUserAddress(s) == IF Len(s.fifo1) > 0 THEN Head(s.fifo1) ELSE ZeroObject

\* lines 743..781: the read burst at ramAddress
ReadObject(s, ramAddress) == Logged(s, "readObject", ramAddress, ObjectAtUserAddress(s))

\* line 795: buff are the bytes read, r is what append returns
Appended(s, buff, r) ==
  [s EXCEPT !.mDriverReceiveBuffer = r.buffer,
            !.rxRead = Append(@, buff),
            !.rxSource = IF r.ok THEN Append(@, buff) ELSE @]

\* lines 783..795
DecodeAndAppend(s, buff) ==
  Appended(s, buff, append(s.mDriverReceiveBuffer, DecodeMessageObject(buff)))

\* variant: the not-empty interrupt stays enabled when the host FIFO is full
DisableNotEmptyInterruptNever(s) == s

\* lines 800..802
DisableNotEmptyInterrupt(s) ==
  IF count(s.mDriverReceiveBuffer) = size(s.mDriverReceiveBuffer)
  THEN writeByteRegisterSPI(s, C1FIFOCON_REGISTER(receiveFIFOIndex), 0)
  ELSE s

receiveInterrupt(s) ==
  DisableNotEmptyInterrupt(
    writeByteRegisterSPI(
      DecodeAndAppend(
        ReadObject(
          readRegisterSPI(
            readByteRegisterSPI(s, C1FIFOSTA_REGISTER(receiveFIFOIndex)),
            C1FIFOUA_REGISTER(receiveFIFOIndex)),
          RAM_BASE + UserAddress(s, C1FIFOUA_REGISTER(receiveFIFOIndex))),
        ObjectAtUserAddress(s)),
      C1FIFOCON_REGISTER(receiveFIFOIndex) + 1, Shl(1, 0)))

\* lines 702..705
ReceiveFIFOInterrupt(s, intReg) ==
  IF BitAnd(intReg, Shl(1, 1)) # 0 THEN receiveInterrupt(s) ELSE s

\* lines 706..709
TransmitFIFOInterrupt(s, intReg) ==
  IF BitAnd(intReg, Shl(1, 0)) # 0 THEN transmitInterrupt(s) ELSE s

\* variant: the clearing write is made whatever C1INT says
ClearInterruptAlways(s, intReg, bit, inRegisterAddress, inValue) ==
  writeByteRegisterSPI(s, inRegisterAddress, inValue)

\* lines 710..718: a flag of C1INT that is set is cleared by a write
ClearInterrupt(s, intReg, bit, inRegisterAddress, inValue) ==
  IF BitAnd(intReg, Shl(1, bit)) # 0
  THEN writeByteRegisterSPI(s, inRegisterAddress, inValue)
  ELSE s

\* intReg: the value of C1INT read at the top
isr_core(s, intReg) ==
  Returns(
    endTransaction(
      ClearInterrupt(
        ClearInterrupt(
          ClearInterrupt(
            TransmitFIFOInterrupt(
              ReceiveFIFOInterrupt(
                Logged(beginTransaction(s), "readWord", C1INT_REGISTER, intReg),
                intReg),
              intReg),
            intReg, 2, C1INT_REGISTER, Shl(1, 2)),
          intReg, 3, C1INT_REGISTER, Shl(1, 3)),
        intReg, 12, C1INT_REGISTER + 1, Shl(1, 4))),
    BitAnd(intReg, Shl(1, 1)) # 0 \/ BitAnd(intReg, Shl(1, 0)) # 0)

(***************************************************************************)
(* Register access, third level (each access in its own transaction)       *)
(***************************************************************************)
writeByteRegister(s, inRegisterAddress, inValue) ==
  endTransaction(writeByteRegisterSPI(beginTransaction(s), inRegisterAddress, inValue))

readByteRegister(s, inRegisterAddress, value) ==
  endTransaction(Logged(beginTransaction(s), "readByte", inRegisterAddress, value))

writeRegister(s, inRegisterAddress, inValue) ==
  endTransaction(Logged(beginTransaction(s), "writeWord", inRegisterAddress, inValue))

readRegister(s, inRegisterAddress, value) ==
  endTransaction(Logged(beginTransaction(s), "readWord", inRegisterAddress, value))

reset2517FD(s) ==
  endTransaction(ControllerReset(Logged(beginTransaction(s), "reset", 0, 0)))

(***************************************************************************)
(* begin                                                                   *)
(***************************************************************************)
NOT_AN_INTERRUPT == -1

\* pins of the host with interrupt capability
InterruptPins == {2}

digitalPinToInterrupt(pin) == IF pin \in InterruptPins THEN pin ELSE NOT_AN_INTERRUPT

filterCount(inFilters) == Len(inFilters.mFilters)

\* the error bits of begin, by name
If(cond, error) == IF cond THEN {error} ELSE {}

\* line 172 is an assignment, not |= : the bits set before it are lost
PinErrors(errorCode, pinINT) ==
  IF pinINT # 255 /\ digitalPinToInterrupt(pinINT) = NOT_AN_INTERRUPT
  THEN {"kINTPinIsNotAnInterrupt"}
  ELSE errorCode

\* lines 161..216: the checks of the settings; errorCode is a set of error bits
SettingsErrors(inSettings, inInterruptServiceRoutine, inFilters, pinINT) ==
  PinErrors(If(~ inSettings.mBitRateClosedToDesiredRate, "kTooFarFromDesiredBitRate")
              \cup If(~ inSettings.consistent, "kInconsistentBitRateSettings"),
            pinINT)
    \cup If(pinINT # 255 /\ inInterruptServiceRoutine = NULL, "kISRIsNull")
    \cup If(pinINT = 255 /\ inInterruptServiceRoutine # NULL, "kISRNotNullAndNoIntPin")
    \cup If(inSettings.mControllerTXQSize > 32, "kControllerTXQSizeGreaterThan32")
    \cup If(inSettings.mControllerTXQBufferPriority > 31,
            "kControllerTXQPriorityGreaterThan31")
    \cup If(inSettings.mControllerReceiveFIFOSize = 0, "kControllerReceiveFIFOSizeIsZero")
    \cup If(inSettings.mControllerReceiveFIFOSize > 32,
            "kControllerReceiveFIFOSizeGreaterThan32")
    \cup If(inSettings.mControllerTransmitFIFOSize = 0,
            "kControllerTransmitFIFOSizeIsZero")
    \cup If(inSettings.mControllerTransmitFIFOSize > 32,
            "kControllerTransmitFIFOSizeGreaterThan32")
    \cup If(inSettings.mControllerTransmitFIFOPriority > 31,
            "kControllerTransmitFIFOPriorityGreaterThan31")
    \cup If(inSettings.ramUsage > 2048, "kControllerRamUsageGreaterThan2048")
    \cup If(filterCount(inFilters) > 32, "kMoreThan32Filters")
    \cup If(~ inFilters.filtersOk, "kFilterDefinitionError")

Validated(s, inSettings, inInterruptServiceRoutine, inFilters, pinINT) ==
  [s EXCEPT !.errorCode =
     SettingsErrors(inSettings, inInterruptServiceRoutine, inFilters, pinINT)]

\* errorCode |= error, when cond
Raise(s, cond, error) == [s EXCEPT !.errorCode = @ \cup If(cond, error)]

\* errorCode = error, when cond
Assign(s, cond, error) == [s EXCEPT !.errorCode = IF cond THEN {error} ELSE @]

\* byte 2 of C1CON: the operation mode is in bits 5..7
ModeByte(mode) == Shl(mode, 5)

\* what the controller answers to poll number k of C1CON+2: the mode asked for from poll
\* number after on, configuration mode (4) or normal mode (0) before
C1CONByte2(expected, after, k) ==
  IF k >= after THEN ModeByte(expected)
  ELSE IF expected = 4 THEN ModeByte(0)
  ELSE ModeByte(4)

\* millis () >= deadline: true from poll number MaxPolls - 1 on
DeadlinePassed(k) == k >= MaxPolls - 1

RECURSIVE WaitMode(_, _, _, _, _)
\* lines 232..237 and 397..402, after the read of poll number k
WaitModePoll(s, value, expected, after, k, error) ==
  IF BitAnd(Shr(value, 5), 7) = expected THEN s
  ELSE IF DeadlinePassed(k) THEN Raise(s, TRUE, error)
  ELSE WaitMode(s, expected, after, k + 1, error)

\* lines 231..238 and 396..403: the wait for the mode expected
WaitMode(s, expected, after, k, error) ==
  WaitModePoll(readByteRegister(s, C1CON_REGISTER + 2, C1CONByte2(expected, after, k)),
               C1CONByte2(expected, after, k), expected, after, k, error)

\* lines 219..225: the pins
BeginPins(s, pinINT) ==
  Logged(IF pinINT # 255 THEN Logged(s, "pinMode", pinINT, 0) ELSE s, "pinModeCS", 0, 1)

\* lines 217..241: pins, request of the configuration mode, reset
BeginRequestConfiguration(s, pinINT, hw) ==
  reset2517FD(
    WaitMode(writeByteRegister(BeginPins(s, pinINT), C1CON_REGISTER + 3, 12),
             4, hw.configurationModeAfter, 0, "kRequestedConfigurationModeTimeOut"))

\* what the controller answers to the read back of iteration k
ReadBackValue(k, bad) == IF k \in bad THEN 0 ELSE Pow2(k)

\* lines 245..249 and 299..303: one iteration, i = 1 << k
EchoStep(s, k, readBackValue, error) ==
  Assign(readRegister(writeRegister(s, RAM_BASE, Pow2(k)), RAM_BASE, readBackValue),
         readBackValue # Pow2(k), error)

RECURSIVE EchoTestNeverStops(_, _, _, _)
\* variant: the loop goes on after a mismatch
EchoTestNeverStops(s, k, bad, error) ==
  IF k >= MaxEchoBits THEN s
  ELSE IF s.errorCode # {} /\ error \notin s.errorCode THEN s
  ELSE EchoTestNeverStops(EchoStep(s, k, ReadBackValue(k, bad), error), k + 1, bad, error)

RECURSIVE EchoTest(_, _, _, _)
\* lines 244..250 and 298..304: write and read back the RAM at 0x400, from iteration k on;
\* bad: the iterations at which the hardware answers a wrong value
EchoTest(s, k, bad, error) ==
  IF k >= MaxEchoBits \/ s.errorCode # {} THEN s
  ELSE EchoTest(EchoStep(s, k, ReadBackValue(k, bad), error), k + 1, bad, error)

\* what the controller answers to poll number k of OSC+1: PLL ready (bit 2) from poll
\* number after on
OSCByte1(after, k) == IF k >= after THEN 4 ELSE 0

RECURSIVE WaitPLL(_, _, _)
\* lines 286..290, after the read of poll number k
WaitPLLPoll(s, value, after, k) ==
  IF BitAnd(value, 4) # 0 THEN s
  ELSE IF DeadlinePassed(k) THEN Assign(s, TRUE, "kX10PLLNotReadyWithin1MS")
  ELSE WaitPLL(s, after, k + 1)

\* lines 283..291: the wait for the PLL
WaitPLL(s, after, k) ==
  WaitPLLPoll(readByteRegister(s, OSC_REGISTER + 1, OSCByte1(after, k)),
              OSCByte1(after, k), after, k)

\* variant: the time-out of the PLL raises no error
BeginOscillatorIgnoresTimeOut(s, inSettings, hw) ==
  IF inSettings.pll
  THEN [WaitPLL(writeByteRegister(s, OSC_REGISTER, 1), hw.pllReadyAfter, 0)
          EXCEPT !.errorCode = {}]
  ELSE writeByteRegister(s, OSC_REGISTER, 0)

\* lines 255..293: the oscillator, and the wait for the PLL
BeginOscillator(s, inSettings, hw) ==
  IF inSettings.pll
  THEN WaitPLL(writeByteRegister(s, OSC_REGISTER, 1), hw.pllReadyAfter, 0)
  ELSE writeByteRegister(s, OSC_REGISTER, 0)

\* (uint8_t) (inSize - 1)
SizeByte(inSize) == (inSize + 255) % 256

\* lines 308..309
BeginDriverBuffers(s, inSettings) ==
  [s EXCEPT
     !.mDriverTransmitBuffer = initWithSize(inSettings.mDriverTransmitFIFOSize),
     !.mDriverReceiveBuffer = initWithSize(inSettings.mDriverReceiveFIFOSize),
     !.rxSource = << >>]

RECURSIVE ResetRAM(_, _)
\* lines 311..313, from address on
ResetRAM(s, address) ==
  IF address >= RAM_BASE + 4 * MaxRamWords THEN s
  ELSE ResetRAM(writeRegister(s, address, 0), address + 4)

\* line 333
BeginUsesTXQ(s, inSettings) == [s EXCEPT !.mUsesTXQ = inSettings.mControllerTXQSize > 0]

\* line 340
BeginEnableTXQ(s) ==
  writeByteRegister(s, C1CON_REGISTER + 2, IF s.mUsesTXQ THEN 4 ELSE 0)

\* lines 310..340: RAM, GPIO, TXQ
BeginTXQ(s, inSettings) ==
  BeginEnableTXQ(
    writeByteRegister(
      BeginUsesTXQ(
        writeByteRegister(
          writeByteRegister(ResetRAM(s, RAM_BASE), IOCON_REGISTER + 3, 3),
          C1TXQCON_REGISTER + 2, inSettings.mControllerTXQBufferPriority),
        inSettings),
      C1TXQCON_REGISTER + 3, SizeByte(inSettings.mControllerTXQSize)))

\* lines 341..354: receive FIFO (FIFO1) and transmit FIFO (FIFO2)
BeginFIFOs(s, inSettings) ==
  writeByteRegister(
    writeByteRegister(
      writeByteRegister(
        writeByteRegister(
          writeByteRegister(s, C1FIFOCON_REGISTER(1) + 3,
                            SizeByte(inSettings.mControllerReceiveFIFOSize)),
          C1FIFOCON_REGISTER(1), 1),
        C1FIFOCON_REGISTER(2) + 2, inSettings.mControllerTransmitFIFOPriority),
      C1FIFOCON_REGISTER(2) + 3, SizeByte(inSettings.mControllerTransmitFIFOSize)),
    C1FIFOCON_REGISTER(2), Shl(1, 7))

\* lines 360..365: the callback of filter number filterIndex is stored, the filter is
\* written and enabled
BeginFilter(s, filter, filterIndex) ==
  writeByteRegister(
    writeRegister(
      writeRegister(
        [s EXCEPT !.mCallBackFunctionArray[filterIndex + 1] = filter.mCallBackRoutine],
        C1MASK_REGISTER(filterIndex), filter.mFilterMask),
      C1FLTOBJ_REGISTER(filterIndex), filter.mAcceptanceFilter),
    C1FLTCON_REGISTER(filterIndex), BitOr(Shl(1, 7), 1))

RECURSIVE BeginFilterLoop(_, _, _)
\* lines 359..368, from filter number filterIndex on
BeginFilterLoop(s, inFilters, filterIndex) ==
  IF filterIndex >= filterCount(inFilters) THEN s
  ELSE BeginFilterLoop(BeginFilter(s, inFilters.mFilters[filterIndex + 1], filterIndex),
                       inFilters, filterIndex + 1)

\* lines 356..368: the array is allocated, then every entry is assigned
BeginFilters(s, inFilters) ==
  BeginFilterLoop(
    [s EXCEPT !.mCallBackFunctionArray = [i \in 1..filterCount(inFilters) |-> NULL]],
    inFilters, 0)

\* lines 369..403: interrupts, bit timing, requested mode
BeginMode(s, inSettings, hw) ==
  WaitMode(
    writeByteRegister(
      writeRegister(
        writeByteRegister(writeByteRegister(s, C1INT_REGISTER + 2, 3),
                          C1INT_REGISTER + 3, 0),
        C1NBTCFG_REGISTER, 0),
      C1CON_REGISTER + 3, inSettings.mRequestedMode),
    inSettings.mRequestedMode, hw.requestedModeAfter, 0, "kRequestedModeTimeOut")

\* lines 404..406: the worker task (ARDUINO_ARCH_ESP32)
BeginTask(s) ==
  IF s.platform = "worker"
  THEN [Logged(s, "xTaskCreate", 0, 0) EXCEPT !.workerPc = "waiting"]
  ELSE s

\* lines 407..414: errorCode is not looked at
BeginAttach(s, inInterruptServiceRoutine, pinINT) ==
  IF pinINT = 255 THEN s
  ELSE IF s.platform = "worker"
  THEN [Logged(s, "attachInterrupt", pinINT, inInterruptServiceRoutine)
          EXCEPT !.attached = TRUE]
  ELSE [Logged(Logged(s, "attachInterrupt", pinINT, inInterruptServiceRoutine),
               "usingInterrupt", pinINT, 0)
          EXCEPT !.attached = TRUE]

\* lines 306..415: host FIFOs, controller FIFOs, filters, interrupts, mode
\* (each step is applied to the value of the step before it)
BeginConfigure(s, inSettings, inInterruptServiceRoutine, inFilters, pinINT, hw) ==
  CHOOSE configured \in
    {BeginAttach(BeginTask(moded), inInterruptServiceRoutine, pinINT) :
       moded \in {BeginMode(filtered, inSettings, hw) :
         filtered \in {BeginFilters(sized, inFilters) :
           sized \in {BeginFIFOs(queued, inSettings) :
             queued \in {BeginTXQ(BeginDriverBuffers(s, inSettings), inSettings)}}}}} :
    TRUE

\* variant: the pins and the request are made whatever the checks found
BeginRequestConfigurationUnchecked(s, pinINT, hw) ==
  BeginRequestConfiguration(s, pinINT, hw)

\* a step of begin made only if (errorCode == 0)
BeginRequestConfigurationIfOk(s, pinINT, hw) ==
  IF s.errorCode = {} THEN BeginRequestConfiguration(s, pinINT, hw) ELSE s

BeginOscillatorIfOk(s, inSettings, hw) ==
  IF s.errorCode = {} THEN BeginOscillator(s, inSettings, hw) ELSE s

\* variant: the controller is configured whatever the steps before found
BeginConfigureAlways(s, inSettings, inInterruptServiceRoutine, inFilters, pinINT, hw) ==
  BeginConfigure(s, inSettings, inInterruptServiceRoutine, inFilters, pinINT, hw)

BeginConfigureIfOk(s, inSettings, inInterruptServiceRoutine, inFilters, pinINT, hw) ==
  IF s.errorCode = {}
  THEN BeginConfigure(s, inSettings, inInterruptServiceRoutine, inFilters, pinINT, hw)
  ELSE s

\* hw: what the hardware answers during bring-up
begin(s, inSettings, inInterruptServiceRoutine, inFilters, pinINT, hw) ==
  CHOOSE returned \in
    {BeginConfigureIfOk(echoed, inSettings, inInterruptServiceRoutine, inFilters, pinINT,
                        hw) :
       echoed \in {EchoTest(clocked, 0, hw.echoFullSpeed,
                            "kReadBackErrorWithFullSpeedSPIClock") :
         clocked \in {BeginOscillatorIfOk(tested, inSettings, hw) :
           tested \in {EchoTest(reset, 0, hw.echo1MHz, "kReadBackErrorWith1MHzSPIClock") :
             reset \in {BeginRequestConfigurationIfOk(
                          Validated(s, inSettings, inInterruptServiceRoutine, inFilters,
                                    pinINT),
                          pinINT, hw)}}}}} :
    TRUE

(***************************************************************************)
(* State                                                                   *)
(***************************************************************************)
VARIABLES
  platform,               \* "inline": isr calls isr_core; "worker": ARDUINO_ARCH_ESP32
  phase,                  \* "constructed", "running" (begin returned 0), "failed"
  pc,                     \* "idle", or "poll" inside the loop of poll
  mINT,                   \* INT pin given to the constructor, 255: none
  attached,               \* the interrupt routine is attached to the INT pin
  mUsesTXQ,
  mControllerTxFIFOFull,
  mDriverReceiveBuffer,
  mDriverTransmitBuffer,
  mCallBackFunctionArray,
  permits,                \* the count of mISRSemaphore
  workerPc,               \* myESP32Task: "none", "waiting" in xSemaphoreTake, "loop"
  pendingEdge,            \* a falling edge of the INT pin not served yet
  controller,             \* the registers and FIFOs of the MCP2517FD
  spi,                    \* the SPI accesses of the last operation, in order
  lastOp,                 \* the last operation, its arguments and its result
  outMessage,             \* the frame the last receive returned
  outSource,              \* history: the message object outMessage was decoded from
  rxSource,               \* history: the objects the frames of mDriverReceiveBuffer come from
  rxRead,                 \* history: the message objects the RX handler read
  returned,               \* history: the frames the successful calls of receive returned
  accepted,               \* history: the frames tryToSend (idx 0) returned true for
  committed,              \* history: the frames committed to the controller TX FIFO
  sendCount,              \* number of tryToSend calls so far
  receivedCount,          \* number of frames that reached the controller so far
  pollCalls,              \* history: the calls of isr_core made by the poll in progress
  pollBound,              \* history: host RX free space + host TX count + 1 when poll began
  codecPc, codecIn, codecObject, codecOut, codecIdf   \* the codec, taken alone

driverVars == << mUsesTXQ, mControllerTxFIFOFull, mDriverReceiveBuffer, mDriverTransmitBuffer,
                 mCallBackFunctionArray >>

workerVars == << permits, workerPc, pendingEdge >>

pollVars == << pollCalls, pollBound >>

historyVars == << outMessage, outSource, rxSource, rxRead, returned, accepted, committed,
                  sendCount, receivedCount >>

codecVars == << codecPc, codecIn, codecObject, codecOut, codecIdf >>

\* the driver, the controller and the history, without the codec taken alone
machineVars == << platform, phase, pc, mINT, attached, driverVars, workerVars, controller,
                  spi, lastOp, historyVars, pollVars >>

vars == << machineVars, codecVars >>

\* the driver and the controller as one record, at the start of an operation
Cur(hwOverrun) ==
  [platform |-> platform,
   mUsesTXQ |-> mUsesTXQ,
   mControllerTxFIFOFull |-> mControllerTxFIFOFull,
   mDriverReceiveBuffer |-> mDriverReceiveBuffer,
   mDriverTransmitBuffer |-> mDriverTransmitBuffer,
   mCallBackFunctionArray |-> mCallBackFunctionArray,
   attached |-> attached, workerPc |-> workerPc,
   fifo1 |-> controller.fifo1, fifo2 |-> controller.fifo2, txq |-> controller.txq,
   ua1 |-> controller.ua1, ua2 |-> controller.ua2, uaq |-> controller.uaq,
   con1 |-> controller.con1, con2 |-> controller.con2,
   rxSize |-> controller.rxSize, txSize |-> controller.txSize,
   txqSize |-> controller.txqSize, txqFSize |-> controller.txqFSize,
   filters |-> controller.filters,
   staged |-> ZeroObject, overrun |-> hwOverrun,
   spi |-> << >>, result |-> FALSE, errorCode |-> {},
   outMessage |-> outMessage, outSource |-> outSource,
   rxSource |-> rxSource, rxRead |-> rxRead, returned |-> returned,
   committed |-> committed]

\* the INT pin of the controller is low: RXIE and TXIE are the only interrupts begin enables
INTLow(s) == RXIF(s) \/ TXIF(s)

\* the INT pin, as the host sees it: a falling edge is latched where the interrupt is
\* attached with FALLING (line 409); with LOW (line 411) the level itself is looked at
INTPin(isAttached, s) ==
  pendingEdge' = IF platform = "worker"
                 THEN pendingEdge \/ (isAttached /\ ~ INTLow(controller) /\ INTLow(s))
                 ELSE pendingEdge

\* the state after an operation that ended in s
Becomes(s) ==
  /\ mUsesTXQ' = s.mUsesTXQ
  /\ mControllerTxFIFOFull' = s.mControllerTxFIFOFull
  /\ mDriverReceiveBuffer' = s.mDriverReceiveBuffer
  /\ mDriverTransmitBuffer' = s.mDriverTransmitBuffer
  /\ mCallBackFunctionArray' = s.mCallBackFunctionArray
  /\ attached' = s.attached
  /\ controller' = [fifo1 |-> s.fifo1, fifo2 |-> s.fifo2, txq |-> s.txq,
                    ua1 |-> s.ua1, ua2 |-> s.ua2, uaq |-> s.uaq,
                    con1 |-> s.con1, con2 |-> s.con2,
                    rxSize |-> s.rxSize, txSize |-> s.txSize,
                    txqSize |-> s.txqSize, txqFSize |-> s.txqFSize,
                    filters |-> s.filters]
  /\ INTPin(s.attached, s)
  /\ spi' = s.spi
  /\ outMessage' = s.outMessage
  /\ outSource' = s.outSource
  /\ rxSource' = s.rxSource
  /\ rxRead' = s.rxRead
  /\ returned' = s.returned
  /\ committed' = s.committed

\* a filter that lets every frame pass, with its callback
PassAllFilter(inCallBackRoutine) ==
  [mCallBackRoutine |-> inCallBackRoutine, mFilterMask |-> 0, mAcceptanceFilter |-> 0]

\* lines 150..151: the filters of begin (inSettings, inInterruptServiceRoutine)
PassAllFilters == [mFilters |-> << PassAllFilter(NULL) >>, filtersOk |-> TRUE]

\* settings that pass every check of begin
GoodSettings ==
  [mBitRateClosedToDesiredRate |-> TRUE,
   consistent |-> TRUE,
   mControllerTXQSize |-> 0,
   mControllerTXQBufferPriority |-> 31,
   mControllerReceiveFIFOSize |-> 1,
   mControllerTransmitFIFOSize |-> 1,
   mControllerTransmitFIFOPriority |-> 0,
   ramUsage |-> 0,
   pll |-> FALSE,
   mRequestedMode |-> 0,
   mDriverTransmitFIFOSize |-> 1,
   mDriverReceiveFIFOSize |-> 1]

\* a controller that answers at once and echoes every value
GoodHardware ==
  [configurationModeAfter |-> 0, echo1MHz |-> {}, pllReadyAfter |-> 0,
   echoFullSpeed |-> {}, requestedModeAfter |-> 0]

\* the arguments of an operation that has none of its own
NoCall ==
  [inSettings |-> GoodSettings, inInterruptServiceRoutine |-> NULL,
   inFilters |-> PassAllFilters, hw |-> GoodHardware, inFilterMatchCallBack |-> NULL]

Op(name, message, result, intReg, errorCode) ==
  [op |-> name, message |-> message, result |-> result, intReg |-> intReg,
   errorCode |-> errorCode, call |-> NoCall]

\* the controller at power-on
PowerOnController ==
  [fifo1 |-> << >>, fifo2 |-> << >>, txq |-> << >>, ua1 |-> 0, ua2 |-> 0, uaq |-> 0,
   con1 |-> 0, con2 |-> 0, rxSize |-> 1, txSize |-> 1, txqSize |-> 1, txqFSize |-> 1,
   filters |-> {}]

\* the state after the constructor (lines 128..143)
Constructed ==
  /\ phase = "constructed"
  /\ pc = "idle"
  /\ mINT \in {2, 7, 255}
  /\ attached = FALSE
  /\ mUsesTXQ = FALSE
  /\ mControllerTxFIFOFull = FALSE
  /\ mDriverReceiveBuffer = initWithSize(0)
  /\ mDriverTransmitBuffer = initWithSize(0)
  /\ mCallBackFunctionArray = NoArray
  /\ permits = 0
  /\ workerPc = "none"
  /\ pendingEdge = FALSE
  /\ controller = PowerOnController
  /\ spi = << >>
  /\ lastOp = Op("constructor", DefaultMessage, FALSE, 0, {})
  /\ outMessage = DefaultMessage
  /\ outSource = ZeroObject
  /\ rxSource = << >>
  /\ rxRead = << >>
  /\ returned = << >>
  /\ accepted = << >>
  /\ committed = << >>
  /\ sendCount = 0
  /\ receivedCount = 0
  /\ pollCalls = 0
  /\ pollBound = 0

CodecIdle ==
  /\ codecPc = "off"
  /\ codecIn = DefaultMessage
  /\ codecObject = ZeroObject
  /\ codecOut = DefaultMessage
  /\ codecIdf = 0

Init == platform = "inline" /\ Constructed /\ CodecIdle

(***************************************************************************)
(* Operations of the application                                           *)
(***************************************************************************)
\* the settings begin is called with
SettingsSet ==
  [mBitRateClosedToDesiredRate : BOOLEAN,
   consistent : {TRUE},
   mControllerTXQSize : 0..MaxControllerTXQSize,
   mControllerTXQBufferPriority : {31},
   mControllerReceiveFIFOSize : 0..MaxControllerReceiveFIFOSize,
   mControllerTransmitFIFOSize : 0..MaxControllerTransmitFIFOSize,
   mControllerTransmitFIFOPriority : {0},
   ramUsage : {0},
   pll : BOOLEAN,
   mRequestedMode : {0},
   mDriverTransmitFIFOSize : 0..MaxDriverTransmitFIFOSize,
   mDriverReceiveFIFOSize : 0..MaxDriverReceiveFIFOSize]

\* what the hardware answers during bring-up: at once or never, every value echoed or the
\* first one wrong
BringUpSet ==
  [configurationModeAfter : {0, MaxPolls}, echo1MHz : {{}, {0}}, pllReadyAfter : {0, MaxPolls},
   echoFullSpeed : {{}, {0}}, requestedModeAfter : {0, MaxPolls}]

\* the interrupt routines begin is called with: none, or the one that calls isr
Routines == {NULL, 1}

BeginOp(s, inSettings, inInterruptServiceRoutine, inFilters, hw) ==
  [op |-> "begin", message |-> DefaultMessage, result |-> s.errorCode = {}, intReg |-> 0,
   errorCode |-> s.errorCode,
   call |-> [inSettings |-> inSettings,
             inInterruptServiceRoutine |-> inInterruptServiceRoutine,
             inFilters |-> inFilters, hw |-> hw, inFilterMatchCallBack |-> NULL]]

\* begin, called on the constructed instance with arguments of the sets given
BeginWith(settings, filters, hardware) ==
  /\ phase = "constructed"
  /\ \E inSettings \in settings, inInterruptServiceRoutine \in Routines,
        inFilters \in filters, hw \in hardware :
       \E s \in {begin(Cur("drop"), inSettings, inInterruptServiceRoutine, inFilters,
                       mINT, hw)} :
          /\ Becomes(s)
          /\ workerPc' = s.workerPc
          /\ phase' = IF s.errorCode = {} THEN "running" ELSE "failed"
          /\ lastOp' = BeginOp(s, inSettings, inInterruptServiceRoutine, inFilters, hw)
  /\ UNCHANGED << platform, pc, mINT, permits, accepted, sendCount, receivedCount, pollVars,
                  codecVars >>

Begin == BeginWith(SettingsSet, {PassAllFilters}, BringUpSet)

\* the frame of the k-th call of tryToSend: frames differ in their first payload word
TxFrame(k, sendIndex) ==
  [id |-> IF k % 2 = 0 THEN 536870911 - k ELSE 256 + k,
   ext |-> k % 2 = 0, rtr |-> FALSE, len |-> 8, idx |-> sendIndex,
   data32 |-> << k, 0 >>]

\* the runs explored: at most MaxFrames frames, given to tryToSend or arriving from the bus
MoreFrames == sendCount + receivedCount < MaxFrames

TryToSend ==
  /\ phase = "running" /\ pc = "idle"
  /\ MoreFrames
  /\ \E sendIndex \in SendIndexes, hwOverrun \in {"drop", "overwrite"} :
       \E inMessage \in {TxFrame(sendCount + 1, sendIndex)} :
       \E s \in {tryToSend(Cur(hwOverrun), inMessage)} :
          /\ Becomes(s)
          /\ lastOp' = Op("tryToSend", inMessage, s.result, 0, {})
          /\ accepted' = IF sendIndex = 0 /\ s.result THEN Append(accepted, inMessage)
                         ELSE accepted
  /\ sendCount' = sendCount + 1
  /\ UNCHANGED << platform, phase, pc, mINT, permits, workerPc, receivedCount, pollVars,
                  codecVars >>

Available ==
  /\ phase = "running" /\ pc = "idle"
  /\ \E s \in {available(Cur("drop"))} :
        /\ Becomes(s)
        /\ lastOp' = Op("available", DefaultMessage, s.result, 0, {})
  /\ UNCHANGED << platform, phase, pc, mINT, permits, workerPc, accepted, sendCount,
                  receivedCount, pollVars, codecVars >>

Receive ==
  /\ phase = "running" /\ pc = "idle"
  /\ \E s \in {receive(Cur("drop"))} :
        /\ Becomes(s)
        /\ lastOp' = Op("receive", DefaultMessage, s.result, 0, {})
  /\ UNCHANGED << platform, phase, pc, mINT, permits, workerPc, accepted, sendCount,
                  receivedCount, pollVars, codecVars >>

\* the filter-match callbacks dispatchReceivedMessage is called with: none, or one
FilterMatchCallBacks == {NULL, 9}

DispatchOp(s, inFilterMatchCallBack) ==
  [op |-> "dispatchReceivedMessage", message |-> DefaultMessage, result |-> s.result,
   intReg |-> 0, errorCode |-> {},
   call |-> [NoCall EXCEPT !.inFilterMatchCallBack = inFilterMatchCallBack]]

DispatchReceivedMessage ==
  /\ phase = "running" /\ pc = "idle"
  /\ \E inFilterMatchCallBack \in FilterMatchCallBacks :
       \E s \in {dispatchReceivedMessage(Cur("drop"), inFilterMatchCallBack)} :
          /\ Becomes(s)
          /\ lastOp' = DispatchOp(s, inFilterMatchCallBack)
  /\ UNCHANGED << platform, phase, pc, mINT, permits, workerPc, accepted, sendCount,
                  receivedCount, pollVars, codecVars >>

(***************************************************************************)
(* Interrupt routine and poll, where isr calls isr_core                    *)
(***************************************************************************)
\* flags of C1INT other than RXIF and TXIF that isr_core looks at: TBCIF, MODIF, SERRIF
\* (none, each one alone, the three at once)
OtherFlags == {0, 4, 8, 4096, 4108}

\* the value of C1INT
C1INT(s, other) ==
  BitOr(BitOr(IF RXIF(s) THEN 2 ELSE 0, IF TXIF(s) THEN 1 ELSE 0), other)

\* isr (lines 688..692), entered while the INT pin is low
Isr ==
  /\ platform = "inline"
  /\ phase = "running" /\ pc = "idle"
  /\ attached /\ INTLow(controller)
  /\ \E other \in OtherFlags :
       \E intReg \in {C1INT(controller, other)} :
       \E s \in {isr_core(Cur("drop"), intReg)} :
          /\ Becomes(s)
          /\ lastOp' = Op("isr", DefaultMessage, s.result, intReg, {})
  /\ UNCHANGED << platform, phase, pc, mINT, permits, workerPc, accepted, sendCount,
                  receivedCount, pollVars, codecVars >>

\* one turn of the loop of poll: while (isr_core ()) {}
PollTurn ==
  \E other \in OtherFlags :
    \E intReg \in {C1INT(controller, other)} :
    \E s \in {isr_core(Cur("drop"), intReg)} :
       /\ Becomes(s)
       /\ lastOp' = Op("poll", DefaultMessage, s.result, intReg, {})
       /\ pc' = IF s.result THEN "poll" ELSE "idle"
       /\ pollCalls' = IF s.result THEN pollCalls + 1 ELSE 0
       /\ pollBound' =
            IF ~ s.result THEN 0
            ELSE IF pc = "poll" THEN pollBound
            ELSE size(mDriverReceiveBuffer) - count(mDriverReceiveBuffer)
                   + count(mDriverTransmitBuffer) + 1

\* poll (lines 665..671): noInterrupts (), and the first turn of the loop
Poll ==
  /\ platform = "inline"
  /\ phase = "running" /\ pc = "idle"
  /\ PollTurn
  /\ UNCHANGED << platform, phase, mINT, permits, workerPc, accepted, sendCount,
                  receivedCount, codecVars >>

\* the next turns, until isr_core returns false; then interrupts ()
PollLoop ==
  /\ phase = "running" /\ pc = "poll"
  /\ PollTurn
  /\ UNCHANGED << platform, phase, mINT, permits, workerPc, accepted, sendCount,
                  receivedCount, codecVars >>

(***************************************************************************)
(* The controller and the bus                                              *)
(***************************************************************************)
\* the k-th message object that arrives: extended and standard frames in turn, with the
\* index of the filter it passed in bits 11..15 of the second word
RxObject(k, filterIndex) ==
  IF k % 2 = 1
  THEN WordBytes(526335) \o WordBytes(24 + Shl(filterIndex, 11)) \o WordBytes(k)
         \o WordBytes(0)
  ELSE WordBytes(291) \o WordBytes(2 + Shl(filterIndex, 11)) \o WordBytes(k)
         \o WordBytes(0)

\* a step of the controller: c is the controller after it
EnvStep(c) ==
  /\ controller' = c
  /\ INTPin(attached, c)
  /\ spi' = << >>
  /\ lastOp' = Op("controller", DefaultMessage, FALSE, 0, {})

\* the controller sends the oldest object of its transmit FIFO
ControllerTransmits ==
  /\ phase = "running"
  /\ Len(controller.fifo2) > 0
  /\ EnvStep([controller EXCEPT !.fifo2 = Tail(@)])
  /\ UNCHANGED << platform, phase, pc, mINT, attached, driverVars, permits, workerPc,
                  historyVars, pollVars, codecVars >>

\* the controller sends the oldest object of the TXQ
ControllerTransmitsTXQ ==
  /\ phase = "running"
  /\ Len(controller.txq) > 0
  /\ EnvStep([controller EXCEPT !.txq = Tail(@)])
  /\ UNCHANGED << platform, phase, pc, mINT, attached, driverVars, permits, workerPc,
                  historyVars, pollVars, codecVars >>

\* a frame passes a filter: stored in FIFO1, lost when FIFO1 is full
ControllerReceives ==
  /\ phase = "running"
  /\ MoreFrames
  /\ \E filterIndex \in controller.filters :
       EnvStep([controller EXCEPT !.fifo1 =
                  IF Len(@) < controller.rxSize
                  THEN Append(@, RxObject(receivedCount + 1, filterIndex)) ELSE @])
  /\ receivedCount' = receivedCount + 1
  /\ UNCHANGED << platform, phase, pc, mINT, attached, driverVars, permits, workerPc,
                  outMessage, outSource, rxSource, rxRead, returned, accepted, committed,
                  sendCount, pollVars, codecVars >>

Next ==
  \/ Begin
  \/ TryToSend
  \/ Available
  \/ Receive
  \/ Isr
  \/ Poll
  \/ PollLoop
  \/ ControllerTransmits
  \/ ControllerTransmitsTXQ
  \/ ControllerReceives

Spec == Init /\ [][Next]_vars

(***************************************************************************)
(* Dispatch of the received frames to the callbacks of the filters         *)
(***************************************************************************)
\* the filters begin is called with: one without callback, two with callbacks 11 and 12,
\* two of which the first has no callback
DispatchFilters ==
  {PassAllFilters,
   [mFilters |-> << PassAllFilter(11), PassAllFilter(12) >>, filtersOk |-> TRUE],
   [mFilters |-> << PassAllFilter(NULL), PassAllFilter(12) >>, filtersOk |-> TRUE]}

BeginDispatch == BeginWith({GoodSettings}, DispatchFilters, {GoodHardware})

DispatchNext ==
  \/ BeginDispatch
  \/ ControllerReceives
  \/ Isr
  \/ Poll
  \/ PollLoop
  \/ DispatchReceivedMessage

SpecDispatch == Init /\ [][DispatchNext]_vars

(***************************************************************************)
(* Bring-up: begin on both platforms, with settings that fail the checks   *)
(* of begin and with a controller that answers late or wrongly             *)
(***************************************************************************)
InitBringUp == platform \in {"inline", "worker"} /\ Constructed /\ CodecIdle

\* settings on both sides of every limit begin checks
ValidationSettings ==
  [mBitRateClosedToDesiredRate : BOOLEAN,
   consistent : BOOLEAN,
   mControllerTXQSize : {0, 33},
   mControllerTXQBufferPriority : {31, 32},
   mControllerReceiveFIFOSize : {0, 1, 33},
   mControllerTransmitFIFOSize : {0, 1, 33},
   mControllerTransmitFIFOPriority : {0, 32},
   ramUsage : {0, 2049},
   pll : {FALSE},
   mRequestedMode : {0},
   mDriverTransmitFIFOSize : {1},
   mDriverReceiveFIFOSize : {1}]

\* 1 or 33 filters, with and without a definition error
ValidationFilters ==
  {[mFilters |-> [i \in 1..n |-> PassAllFilter(NULL)], filtersOk |-> ok] :
     n \in {1, 33}, ok \in BOOLEAN}

\* begin with settings of which any number fail the checks of lines 161..216
BeginValidation == BeginWith(ValidationSettings, ValidationFilters, {GoodHardware})

\* settings that pass the checks, with and without PLL and TXQ
SequenceSettings ==
  {[GoodSettings EXCEPT !.pll = pll, !.mControllerTXQSize = txqSize] :
     pll \in BOOLEAN, txqSize \in {0, 1, 32}}

\* the iterations of an echo test at which the read back is wrong
EchoFaults == {{}, {0}, {1}, {MaxEchoBits - 1}, {1, 2}}

\* a controller that reaches a mode, or locks its PLL, at the first poll, at a later one
\* or not before the deadline, and that answers the echo tests rightly or wrongly
SequenceHardware ==
  [configurationModeAfter : 0..MaxPolls, echo1MHz : EchoFaults,
   pllReadyAfter : 0..MaxPolls, echoFullSpeed : EchoFaults,
   requestedModeAfter : 0..MaxPolls]

\* begin with valid settings: lines 217..415 against that controller
BeginSequence == BeginWith(SequenceSettings, {PassAllFilters}, SequenceHardware)

BringUpNext ==
  \/ BeginValidation
  \/ BeginSequence

SpecBringUp == InitBringUp /\ [][BringUpNext]_vars

(***************************************************************************)
(* The worker-task platform (ARDUINO_ARCH_ESP32): isr and poll give a      *)
(* permit of mISRSemaphore, myESP32Task takes it and calls isr_core        *)
(***************************************************************************)
InitWorker == platform = "worker" /\ Constructed /\ CodecIdle

BeginWorker == BeginWith({GoodSettings}, {PassAllFilters}, {GoodHardware})

\* xSemaphoreGive on the counting semaphore of line 140: the give fails when it is full
Given(n) == IF n < MaxPermits THEN n + 1 ELSE n

\* isr (lines 678..682), entered on a falling edge of the INT pin
IsrWorker ==
  /\ platform = "worker"
  /\ attached /\ pendingEdge
  /\ pendingEdge' = FALSE
  /\ permits' = Given(permits)
  /\ spi' = << >>
  /\ lastOp' = Op("isr", DefaultMessage, FALSE, 0, {})
  /\ UNCHANGED << platform, phase, pc, mINT, attached, driverVars, workerPc, controller,
                  historyVars, pollVars, codecVars >>

\* poll (lines 655..659)
PollWorker ==
  /\ platform = "worker"
  /\ phase = "running"
  /\ permits' = Given(permits)
  /\ spi' = << >>
  /\ lastOp' = Op("poll", DefaultMessage, FALSE, 0, {})
  /\ UNCHANGED << platform, phase, pc, mINT, attached, driverVars, workerPc, pendingEdge,
                  controller, historyVars, pollVars, codecVars >>

\* myESP32Task, line 33: xSemaphoreTake returns when a permit is there
TaskTake ==
  /\ workerPc = "waiting"
  /\ permits > 0
  /\ permits' = permits - 1
  /\ workerPc' = "loop"
  /\ spi' = << >>
  /\ lastOp' = Op("xSemaphoreTake", DefaultMessage, FALSE, 0, {})
  /\ UNCHANGED << platform, phase, pc, mINT, attached, driverVars, pendingEdge, controller,
                  historyVars, pollVars, codecVars >>

\* variant: the task goes back to xSemaphoreTake after every call of isr_core
TaskAfterOneCall(loop) == "waiting"

\* myESP32Task, lines 35..37: while (loop)
TaskAfter(loop) == IF loop THEN "loop" ELSE "waiting"

\* myESP32Task, line 36: one call of isr_core
TaskLoop ==
  /\ workerPc = "loop"
  /\ \E other \in OtherFlags :
       \E intReg \in {C1INT(controller, other)} :
       \E s \in {isr_core(Cur("drop"), intReg)} :
          /\ Becomes(s)
          /\ lastOp' = Op("task", DefaultMessage, s.result, intReg, {})
          /\ workerPc' = TaskAfter(s.result)
  /\ UNCHANGED << platform, phase, pc, mINT, permits, accepted, sendCount, receivedCount,
                  pollVars, codecVars >>

WorkerNext ==
  \/ BeginWorker
  \/ TryToSend
  \/ Receive
  \/ ControllerTransmits
  \/ ControllerReceives
  \/ IsrWorker
  \/ PollWorker
  \/ TaskTake
  \/ TaskLoop

SpecWorker == InitWorker /\ [][WorkerNext]_vars

\* weak fairness of TaskLoop, written out: a step of TaskLoop that changes the state is
\* possible exactly when the task is inside its loop (the call of isr_core is recorded in
\* lastOp with the value of C1INT it read, and that value is not determined by the state)
FairTaskLoop == []<>(workerPc # "loop") \/ []<><<TaskLoop>>_vars

\* the scheduler runs myESP32Task when it is ready: it is the task of highest priority
\* (256, line 405) and no operation of the driver holds the SPI lock for ever
SpecWorkerFair == SpecWorker /\ WF_vars(TaskTake) /\ FairTaskLoop

(***************************************************************************)
(* The worker-task platform without poll: the task is woken by the falling *)
(* edges of INT only                                                       *)
(***************************************************************************)
\* a frame passes a filter after the requested mode was reached (line 403) and before
\* attachInterrupt (line 409): INT falls while no interrupt is attached, no edge is latched
ControllerReceivesBeforeAttach ==
  /\ platform = "worker"
  /\ phase = "running"
  /\ lastOp.op = "begin"
  /\ MoreFrames
  /\ \E filterIndex \in controller.filters :
       controller' = [controller EXCEPT !.fifo1 =
                        IF Len(@) < controller.rxSize
                        THEN Append(@, RxObject(receivedCount + 1, filterIndex)) ELSE @]
  /\ receivedCount' = receivedCount + 1
  /\ spi' = << >>
  /\ lastOp' = Op("controller", DefaultMessage, FALSE, 0, {})
  /\ UNCHANGED << platform, phase, pc, mINT, attached, driverVars, workerVars,
                  outMessage, outSource, rxSource, rxRead, returned, accepted, committed,
                  sendCount, pollVars, codecVars >>

WakeUpNext ==
  \/ BeginWorker
  \/ TryToSend
  \/ Receive
  \/ ControllerTransmits
  \/ ControllerReceives
  \/ ControllerReceivesBeforeAttach
  \/ IsrWorker
  \/ TaskTake
  \/ TaskLoop

SpecWakeUp == InitWorker /\ [][WakeUpNext]_vars

\* the interrupt routine is entered when an edge is latched, and the scheduler runs
\* myESP32Task when it is ready
SpecWakeUpFair == SpecWakeUp /\ WF_vars(IsrWorker) /\ WF_vars(TaskTake) /\ FairTaskLoop

(***************************************************************************)
(* Reception with FIFOs of several frames: the host RX FIFO and FIFO1 of   *)
(* the controller hold up to MaxReceiveDepth frames                        *)
(***************************************************************************)
ReceiveSettings ==
  {[GoodSettings EXCEPT !.mDriverReceiveFIFOSize = driverSize,
                        !.mControllerReceiveFIFOSize = controllerSize] :
     driverSize \in 1..MaxReceiveDepth, controllerSize \in 1..MaxReceiveDepth}

BeginReceive == BeginWith(ReceiveSettings, {PassAllFilters}, {GoodHardware})

ReceiveNext ==
  \/ BeginReceive
  \/ TryToSend
  \/ Available
  \/ Receive
  \/ Isr
  \/ Poll
  \/ PollLoop
  \/ ControllerTransmits
  \/ ControllerReceives

SpecReceive == Init /\ [][ReceiveNext]_vars

(***************************************************************************)
(* The sections of the application and isr_core, step by step: a section   *)
(* is entered (its bracket is taken), then its body runs and the bracket   *)
(* is released; isr_core likewise.  pc is the section the application is   *)
(* in, workerPc = "core" while isr_core is between its beginTransaction    *)
(* and its endTransaction.                                                 *)
(***************************************************************************)
Sections == {"tryToSend", "available", "receive"}

\* line 429 (tryToSend), lines 595..599 (available), lines 612..616 (receive)
Entered(section, s) == IF section = "tryToSend" THEN beginTransaction(s) ELSE BeginExclusion(s)

\* the bracket a section takes on the platform the driver is built for
BracketOf(section) == Entered(section, Cur("drop")).spi[1][1]

\* lines 14..25: on the worker platform beginTransaction takes a mutex and noInterrupts
\* does nothing
TakesMutex(bracket) == platform = "worker" /\ bracket = "beginTransaction"

\* elsewhere noInterrupts masks the interrupts, and beginTransaction masks the one given
\* to usingInterrupt (line 412, called where the interrupt is attached)
MasksInterrupt(bracket) ==
  platform = "inline" /\ (bracket = "noInterrupts" \/ (bracket = "beginTransaction" /\ attached))

\* isr_core is between line 700 and line 719
InCore == workerPc = "core"

\* the bracket of the section can be taken: the mutex is free; on the inline platform the
\* application does not run while the interrupt routine does
CanEnter(section) ==
  IF platform = "worker" THEN ~ (InCore /\ TakesMutex(BracketOf(section))) ELSE ~ InCore

EnterSection ==
  /\ phase = "running" /\ pc = "idle"
  /\ \E section \in Sections :
       /\ section = "tryToSend" => MoreFrames
       /\ CanEnter(section)
       /\ pc' = section
       /\ spi' = << Access(BracketOf(section), 0, 0) >>
  /\ lastOp' = Op("enter", DefaultMessage, FALSE, 0, {})
  /\ UNCHANGED << platform, phase, mINT, attached, driverVars, workerVars, controller,
                  historyVars, pollVars, codecVars >>

\* lines 430..437: the body of tryToSend, and the release of its bracket
LeaveTryToSend ==
  /\ pc = "tryToSend"
  /\ \E sendIndex \in SendIndexes :
       \E inMessage \in {TxFrame(sendCount + 1, sendIndex)} :
       \E s \in {tryToSend(Cur("drop"), inMessage)} :
          /\ Becomes(s)
          /\ lastOp' = Op("tryToSend", inMessage, s.result, 0, {})
          /\ accepted' = IF sendIndex = 0 /\ s.result THEN Append(accepted, inMessage)
                         ELSE accepted
  /\ sendCount' = sendCount + 1
  /\ pc' = "idle"
  /\ UNCHANGED << platform, phase, mINT, permits, workerPc, receivedCount, pollVars,
                  codecVars >>

\* lines 600..605
LeaveAvailable ==
  /\ pc = "available"
  /\ \E s \in {available(Cur("drop"))} :
        /\ Becomes(s)
        /\ lastOp' = Op("available", DefaultMessage, s.result, 0, {})
  /\ pc' = "idle"
  /\ UNCHANGED << platform, phase, mINT, permits, workerPc, accepted, sendCount,
                  receivedCount, pollVars, codecVars >>

\* lines 617..625
LeaveReceive ==
  /\ pc = "receive"
  /\ \E s \in {receive(Cur("drop"))} :
        /\ Becomes(s)
        /\ lastOp' = Op("receive", DefaultMessage, s.result, 0, {})
  /\ pc' = "idle"
  /\ UNCHANGED << platform, phase, mINT, permits, workerPc, accepted, sendCount,
                  receivedCount, pollVars, codecVars >>

\* line 700: isr_core takes the SPI lock.  The task calls it inside its loop; the
\* interrupt routine is entered while INT is low (line 411) and not masked
EnterCore ==
  /\ phase = "running"
  /\ IF platform = "worker"
     THEN workerPc = "loop" /\ ~ (pc \in Sections /\ TakesMutex(BracketOf(pc)))
     ELSE /\ workerPc = "none" /\ attached /\ INTLow(controller)
          /\ pc # "poll"
          /\ ~ (pc \in Sections /\ MasksInterrupt(BracketOf(pc)))
  /\ workerPc' = "core"
  /\ spi' = << Access("beginTransaction", 0, 0) >>
  /\ lastOp' = Op("enter", DefaultMessage, FALSE, 0, {})
  /\ UNCHANGED << platform, phase, pc, mINT, attached, driverVars, permits, pendingEdge,
                  controller, historyVars, pollVars, codecVars >>

\* lines 701..720: the body of isr_core, and the release of the lock
LeaveCore ==
  /\ InCore
  /\ \E other \in OtherFlags :
       \E intReg \in {C1INT(controller, other)} :
       \E s \in {isr_core(Cur("drop"), intReg)} :
          /\ Becomes(s)
          /\ lastOp' = Op(IF platform = "worker" THEN "task" ELSE "isr", DefaultMessage,
                          s.result, intReg, {})
          /\ workerPc' = IF platform = "worker" THEN TaskAfter(s.result) ELSE "none"
  /\ UNCHANGED << platform, phase, pc, mINT, permits, accepted, sendCount, receivedCount,
                  pollVars, codecVars >>

\* poll of the inline platform, called by the application between two sections
PollBetweenSections == workerPc = "none" /\ (Poll \/ PollLoop)

BeginSections == BeginWith({GoodSettings}, {PassAllFilters}, {GoodHardware})

SectionsNext ==
  \/ BeginSections
  \/ EnterSection
  \/ LeaveTryToSend
  \/ LeaveAvailable
  \/ LeaveReceive
  \/ EnterCore
  \/ LeaveCore
  \/ PollBetweenSections
  \/ PollWorker
  \/ IsrWorker
  \/ TaskTake
  \/ ControllerTransmits
  \/ ControllerReceives

SpecSections == InitBringUp /\ [][SectionsNext]_vars

(***************************************************************************)
(* Transmission until every frame is out: the controller goes on sending   *)
(* and the pending interrupts go on being served                           *)
(***************************************************************************)
TransmitSettings ==
  {[GoodSettings EXCEPT !.mDriverTransmitFIFOSize = driverSize,
                        !.mControllerTransmitFIFOSize = controllerSize] :
     driverSize \in 1..MaxDriverTransmitFIFOSize,
     controllerSize \in 1..MaxControllerTransmitFIFOSize}

BeginTransmit == BeginWith(TransmitSettings, {PassAllFilters}, {GoodHardware})

TransmitNext ==
  \/ BeginTransmit
  \/ TryToSend
  \/ Isr
  \/ Poll
  \/ PollLoop
  \/ ControllerTransmits
  \/ ControllerReceives

SpecTransmit == Init /\ [][TransmitNext]_vars

\* a call of isr_core, by the interrupt routine or by poll
Served == Isr \/ Poll \/ PollLoop

\* pending interrupts are eventually served: isr_core is called again and again as long
\* as INT stays low (line 411: the interrupt is attached on the LOW level; without an
\* INT pin the application calls poll)
FairService == []<>(phase # "running" \/ ~ INTLow(controller)) \/ []<><<Served>>_vars

\* the controller eventually sends the oldest object of its transmit FIFO
SpecTransmitFair == SpecTransmit /\ WF_vars(ControllerTransmits) /\ FairService

(***************************************************************************)
(* begin called again on an instance that is up                            *)
(***************************************************************************)
\* begin, called on an instance a former begin has brought up (lines 158..418 run again on
\* the fields the instance has by then: the constructor, lines 128..143, ran once)
BeginAgain ==
  /\ phase = "running" /\ pc = "idle"
  /\ \E inSettings \in TransmitSettings, inInterruptServiceRoutine \in Routines :
       \E s \in {begin(Cur("drop"), inSettings, inInterruptServiceRoutine, PassAllFilters,
                       mINT, GoodHardware)} :
          /\ Becomes(s)
          /\ workerPc' = s.workerPc
          /\ phase' = IF s.errorCode = {} THEN "running" ELSE "failed"
          /\ lastOp' = BeginOp(s, inSettings, inInterruptServiceRoutine, PassAllFilters,
                               GoodHardware)
  /\ UNCHANGED << platform, pc, mINT, permits, accepted, sendCount, receivedCount, pollVars,
                  codecVars >>

RestartNext ==
  \/ BeginTransmit
  \/ BeginAgain
  \/ TryToSend
  \/ Receive
  \/ Isr
  \/ Poll
  \/ PollLoop
  \/ ControllerTransmits
  \/ ControllerReceives

SpecRestart == Init /\ [][RestartNext]_vars

(***************************************************************************)
(* The frame codec taken alone: a frame is encoded as appendInControllerTx- *)
(* FIFO and sendViaTXQ write it, and the 16 bytes are decoded as            *)
(* receiveInterrupt reads them                                             *)
(***************************************************************************)
ExtendedIds ==
  {0, 536870911, 2047, 2048, 305419896, 536609024} \cup {Pow2(k) : k \in 0..MaxIdBit}

StandardIds == {0, 1, 1024, 1365, 2047}

Payloads == {<< 0, 0 >>, << 1, 2147483647 >>, << 305419896, 1 >>}

CodecFrames ==
  {[id |-> i, ext |-> TRUE, rtr |-> r, len |-> l, idx |-> 0, data32 |-> d] :
     i \in ExtendedIds, r \in BOOLEAN, l \in 0..MaxLen, d \in Payloads}
  \cup
  {[id |-> i, ext |-> FALSE, rtr |-> r, len |-> l, idx |-> 0, data32 |-> d] :
     i \in StandardIds, r \in BOOLEAN, l \in 0..MaxLen, d \in Payloads}

CodecInit ==
  /\ platform = "inline"
  /\ Constructed
  /\ codecPc = "in"
  /\ codecIn \in CodecFrames
  /\ codecObject = ZeroObject
  /\ codecOut = DefaultMessage
  /\ codecIdf = codecIn.id

\* lines 468..517: the message object of codecIn
Encode ==
  /\ codecPc = "in"
  /\ codecObject' = MessageObject(codecIn)
  /\ codecPc' = "encoded"
  /\ UNCHANGED << codecIn, codecOut, codecIdf, machineVars >>

\* lines 755..793: the frame read from the message object
Decode ==
  /\ codecPc = "encoded"
  /\ codecOut' = DecodeMessageObject(codecObject)
  /\ codecPc' = "decoded"
  /\ UNCHANGED << codecIn, codecObject, codecIdf, machineVars >>

\* line 471, applied to the identifier, and then to its own result
Reorder ==
  /\ codecIn.ext
  /\ codecPc \in {"in", "reordered"}
  /\ codecIdf' = EncodeIdentifier(codecIdf)
  /\ codecPc' = IF codecPc = "in" THEN "reordered" ELSE "reorderedTwice"
  /\ UNCHANGED << codecIn, codecObject, codecOut, machineVars >>

\* line 792, applied to the reordered identifier
InverseReorder ==
  /\ codecPc = "reordered"
  /\ codecIdf' = DecodeIdentifier(codecIdf)
  /\ codecPc' = "restored"
  /\ UNCHANGED << codecIn, codecObject, codecOut, machineVars >>

CodecNext ==
  \/ Encode
  \/ Decode
  \/ Reorder
  \/ InverseReorder

SpecCodec == CodecInit /\ [][CodecNext]_vars

(***************************************************************************)
(* Properties                                                              *)
(***************************************************************************)
\* the values written to a byte register during an operation, in order
ValuesWritten(trace, inRegisterAddress) ==
  LET written == SelectSeq(trace, LAMBDA a : a[1] = "writeByte" /\ a[2] = inRegisterAddress)
  IN [i \in 1..Len(written) |-> written[i][3]]

\* the values read from a byte register during an operation, in order
ValuesRead(trace, inRegisterAddress) ==
  LET read == SelectSeq(trace, LAMBDA a : a[1] = "readByte" /\ a[2] = inRegisterAddress)
  IN [i \in 1..Len(read) |-> read[i][3]]

\* the operation took and released the SPI lock and did nothing else on the bus
OnlyLock(trace) == trace = << Access("beginTransaction", 0, 0), Access("endTransaction", 0, 0) >>

\* the positions of the operation at which a message object is written to the RAM
ObjectWrites(trace) == {i \in 1..Len(trace) : trace[i][1] = "writeObject"}

\* one message object written, and UINC | TXREQ written to C1FIFOCON(2)+1 right after it
CommitsOne(trace, inMessage) ==
  /\ Cardinality(ObjectWrites(trace)) = 1
  /\ \A i \in ObjectWrites(trace) :
       /\ trace[i][3] = MessageObject(inMessage)
       /\ i < Len(trace)
       /\ trace[i + 1] = Access("writeByte", C1FIFOCON_REGISTER(2) + 1, 3)
  /\ ValuesWritten(trace, C1FIFOCON_REGISTER(2) + 1) = << 3 >>

\* the step is a call of tryToSend with send index 0
SendsNormal == lastOp'.op = "tryToSend" /\ lastOp'.message.idx = 0

\* the step is a run of isr_core in which the TX handler ran
TxHandlerRuns == lastOp'.op \in {"isr", "poll"} /\ BitAnd(lastOp'.intReg, 1) # 0

\* the committed frames that were given to tryToSend (their first payload word is the
\* number of the call; the frame of a default-constructed CANMessage has 0 there)
SentCommitted == SelectSeq(committed, LAMBDA m : m.data32[1] # 0)

\* C1: the driver does not reorder transmitted frames: the frames committed to the
\* controller TX FIFO are committed in the order of the tryToSend calls (index 0) that
\* returned true for them; the accepted frames are those committed followed by those
\* still held in the host TX FIFO, oldest first.
C1_CommitOrder ==
  phase = "running" =>
    /\ accepted = SentCommitted \o mDriverTransmitBuffer.mBuffer
    /\ \A i, j \in 1..Len(SentCommitted) :
         i < j => SentCommitted[i].data32[1] < SentCommitted[j].data32[1]

\* C1 witness: three frames accepted, two of them through the host TX FIFO, all committed
C1_Witness ==
  /\ phase = "running"
  /\ Len(accepted) = 3
  /\ committed = accepted
  /\ size(mDriverTransmitBuffer) = 2
  /\ lastOp.op = "isr"

\* C2: after a successful begin, mControllerTxFIFOFull is true iff the last value written
\* to byte 0 of C1FIFOCON(2) is 0x81, and false iff it is 0x80.
C2_FlagMatchesEnable ==
  phase = "running" =>
    /\ mControllerTxFIFOFull <=> controller.con2 = 129
    /\ ~ mControllerTxFIFOFull <=> controller.con2 = 128

\* C2 witness: the flag was set by a send and cleared again by the TX handler
C2_Witness ==
  /\ phase = "running"
  /\ lastOp.op \in {"isr", "poll"}
  /\ BitAnd(lastOp.intReg, 1) # 0
  /\ ~ mControllerTxFIFOFull
  /\ controller.con2 = 128
  /\ Len(SentCommitted) >= 2

\* C3: RX throttle, for every size of the host RX FIFO: after a successful begin, whenever
\* the host RX FIFO is full the last value written to byte 0 of C1FIFOCON(1) is 0, and after
\* a receive that returned true bit 0 of C1FIFOCON(1) is 1.
C3_RxThrottle ==
  phase = "running" =>
    /\ count(mDriverReceiveBuffer) = size(mDriverReceiveBuffer) => controller.con1 = 0
    /\ lastOp.op = "receive" /\ lastOp.result => controller.con1 % 2 = 1

\* C4: codec round trip: for every frame with len in 0..8, decoding the message object
\* produced by encoding yields the same id, ext, rtr, len and payload words.
C4_RoundTrip ==
  codecPc = "decoded" /\ codecIn.len <= 8 =>
    /\ codecOut.id = codecIn.id
    /\ codecOut.ext = codecIn.ext
    /\ codecOut.rtr = codecIn.rtr
    /\ codecOut.len = codecIn.len
    /\ codecOut.data32 = codecIn.data32

\* C4 witness: the extended remote frame of id 0x800 and len 8 went through the codec
C4_Witness ==
  /\ codecPc = "decoded"
  /\ codecIn.ext /\ codecIn.rtr /\ codecIn.id = 2048 /\ codecIn.len = 8
  /\ codecObject = MessageObject(codecIn)
  /\ codecOut.id = 2048

\* C5 (amended): the reorder applied when an extended frame is encoded is undone by the
\* reorder applied when it is decoded: the two in turn yield the identifier.
C5_ReorderThenInverse == codecPc = "restored" => codecIdf = codecIn.id

\* C5 witness: id 0x800 was reordered and restored
C5_Witness == codecPc = "restored" /\ codecIn.id = 2048 /\ codecIdf = 2048

\* C5 as stated: the encode reorder applied twice yields the identifier.
C5_ReorderTwice == codecPc = "reorderedTwice" => codecIdf = codecIn.id

\* the message object of scenario S3: identifier word 0x000807FF, ext = 1, len = 8
S3Object(buff) ==
  /\ WordOfBytes(buff, 1) = 526335
  /\ BitAnd(WordOfBytes(buff, 5), 16) # 0
  /\ BitAnd(WordOfBytes(buff, 5), 15) = 8

\* C6 (amended): when the RX handler read a message object with identifier word
\* 0x000807FF, ext = 1 and len = 8, the frame receive returns for it has id 0x1FFC0100,
\* ext true and len 8.
C6_ExtendedDecode ==
  lastOp.op = "receive" /\ lastOp.result /\ S3Object(outSource) =>
    outMessage.id = 536609024 /\ outMessage.ext /\ outMessage.len = 8

\* C6 witness: receive returned the frame of the S3 object
C6_Witness ==
  /\ lastOp.op = "receive" /\ lastOp.result
  /\ S3Object(outSource)
  /\ outSource \in {rxRead[i] : i \in 1..Len(rxRead)}
  /\ outMessage.id = 536609024

\* C6 as stated: the frame returned for the S3 object has id 0x1FFFFFFF, ext true, len 8.
C6_AsStated ==
  lastOp.op = "receive" /\ lastOp.result /\ S3Object(outSource) =>
    outMessage.id = 536870911 /\ outMessage.ext /\ outMessage.len = 8

\* C7: TX overflow: tryToSend with index 0 while mControllerTxFIFOFull is true appends the
\* frame to the host TX FIFO and returns the result of the append (true: one more frame
\* held; false: host TX FIFO unchanged); no frame and no register is written to the
\* controller.
C7_Overflow ==
  [][SendsNormal /\ mControllerTxFIFOFull =>
       LET room == count(mDriverTransmitBuffer) < size(mDriverTransmitBuffer)
       IN /\ lastOp'.result = room
          /\ mDriverTransmitBuffer' =
               IF room
               THEN [mDriverTransmitBuffer EXCEPT !.mBuffer = Append(@, lastOp'.message)]
               ELSE mDriverTransmitBuffer
          /\ OnlyLock(spi')
          /\ controller' = controller
          /\ committed' = committed
          /\ mControllerTxFIFOFull']_vars

\* C7 witness: a host TX FIFO of one slot holds a frame and the next send was refused
C7_Witness ==
  /\ lastOp.op = "tryToSend" /\ lastOp.message.idx = 0 /\ ~ lastOp.result
  /\ size(mDriverTransmitBuffer) = 1
  /\ count(mDriverTransmitBuffer) = 1
  /\ mControllerTxFIFOFull

\* scenario S1 so far: every call of tryToSend had index 0 and returned true, and the
\* controller has sent nothing yet
S1Run ==
  /\ Len(accepted) = sendCount
  /\ controller.fifo2 = [i \in 1..Len(committed) |-> MessageObject(committed[i])]

C9_Drain ==
  [][TxHandlerRuns /\ count(mDriverTransmitBuffer) >= 1 =>
       /\ mDriverTransmitBuffer' =
            [mDriverTransmitBuffer EXCEPT !.mBuffer = Tail(@)]
       /\ committed' = Append(committed, Head(mDriverTransmitBuffer.mBuffer))
       /\ CommitsOne(spi', Head(mDriverTransmitBuffer.mBuffer))
       /\ IF count(mDriverTransmitBuffer) - 1 = 0
          THEN /\ ~ mControllerTxFIFOFull'
               /\ ValuesWritten(spi', C1FIFOCON_REGISTER(2)) = << 128 >>
          ELSE /\ mControllerTxFIFOFull /\ mControllerTxFIFOFull'
               /\ ValuesWritten(spi', C1FIFOCON_REGISTER(2)) = << >>]_vars

\* C9 witness: the TX handler ran with two frames held: the older one is committed, the
\* newer one is still held and the flag is still true
C9_Witness ==
  /\ lastOp.op \in {"isr", "poll"} /\ BitAnd(lastOp.intReg, 1) # 0
  /\ Len(accepted) = 3
  /\ SentCommitted = SubSeq(accepted, 1, 2)
  /\ mDriverTransmitBuffer.mBuffer = << accepted[3] >>
  /\ mControllerTxFIFOFull
  /\ controller.con2 = 129

\* C10: reserved send index: tryToSend with an index other than 0 and 255 returns false
\* and changes nothing: no SPI access besides taking and releasing the lock, host FIFOs,
\* flag and controller unchanged.
C10_ReservedIndex ==
  [][lastOp'.op = "tryToSend" /\ lastOp'.message.idx \notin {0, 255} =>
       /\ ~ lastOp'.result
       /\ OnlyLock(spi')
       /\ driverVars' = driverVars
       /\ controller' = controller
       /\ committed' = committed
       /\ accepted' = accepted
       /\ attached' = attached]_vars

\* C10 witness: a send with index 7 was refused while the TXQ is in use and has room
C10_Witness ==
  /\ lastOp.op = "tryToSend" /\ lastOp.message.idx = 7 /\ ~ lastOp.result
  /\ mUsesTXQ
  /\ TXQNotFullBit(controller)
  /\ OnlyLock(spi)

\* the accesses of the operation that write to the controller
Writes(trace) ==
  SelectSeq(trace, LAMBDA a : a[1] \in {"writeByte", "writeWord", "writeObject", "reset"})

\* the step is a call of tryToSend with send index 255
SendsViaTXQ == lastOp'.op = "tryToSend" /\ lastOp'.message.idx = 255

\* C11: TXQ path: tryToSend with index 255 returns true iff mUsesTXQ is true and bit 0 of
\* the C1TXQSTA value read is set (C1TXQSTA is not read when mUsesTXQ is false); when it
\* returns true the only writes are one message object at 0x400 + C1TXQUA and then
\* UINC | TXREQ to C1TXQCON+1; when it returns false nothing is written to the controller;
\* in both cases the host TX FIFO and mControllerTxFIFOFull are unchanged.
C11_TXQPath ==
  [][SendsViaTXQ =>
       /\ IF mUsesTXQ
          THEN /\ ValuesRead(spi', C1TXQSTA_REGISTER)
                    = << IF TXQNotFullBit(controller) THEN 1 ELSE 0 >>
               /\ lastOp'.result <=> TXQNotFullBit(controller)
          ELSE /\ ValuesRead(spi', C1TXQSTA_REGISTER) = << >>
               /\ ~ lastOp'.result
       /\ IF lastOp'.result
          THEN Writes(spi') =
                 << Access("writeObject", RAM_BASE + UserAddress(controller, C1TXQUA_REGISTER),
                           MessageObject(lastOp'.message)),
                    Access("writeByte", C1TXQCON_REGISTER + 1, 3) >>
          ELSE Writes(spi') = << >> /\ controller' = controller
       /\ mDriverTransmitBuffer' = mDriverTransmitBuffer
       /\ mControllerTxFIFOFull' = mControllerTxFIFOFull
       /\ committed' = committed]_vars

\* C11 witness: a TXQ of one object holds the frame of a first send, and a second send with
\* index 255 was refused because C1TXQSTA had bit 0 clear
C11_Witness ==
  /\ lastOp.op = "tryToSend" /\ lastOp.message.idx = 255 /\ ~ lastOp.result
  /\ mUsesTXQ
  /\ Len(controller.txq) = 1
  /\ ValuesRead(spi, C1TXQSTA_REGISTER) = << 0 >>
  /\ sendCount = 2

\* the callbacks called during an operation, in order
CallBacks(trace) ==
  SelectSeq(trace, LAMBDA a : a[1] \in {"inFilterMatchCallBack", "callBackFunction"})

\* the call of the filter-match callback, if there is one
FilterMatchCall(inFilterMatchCallBack, filterIndex) ==
  IF inFilterMatchCallBack # NULL
  THEN << Access("inFilterMatchCallBack", inFilterMatchCallBack, filterIndex) >>
  ELSE << >>

\* the call of the callback of a filter, if it has one
FilterCall(routine, frame) ==
  IF routine # NULL THEN << Access("callBackFunction", routine, frame) >> ELSE << >>

\* C12: dispatchReceivedMessage returns false and calls no callback when the host RX FIFO
\* is empty; when it dequeues a frame whose filter index is k it returns true and calls the
\* filter-match callback (if not null) once with k, then the callback of filter k (if not
\* null) once with that frame, and no other callback.  The callbacks are those given to
\* begin, filter by filter, and nothing but begin changes them.
C12_Dispatch ==
  /\ [][lastOp'.op = "dispatchReceivedMessage" =>
          IF count(mDriverReceiveBuffer) = 0
          THEN ~ lastOp'.result /\ CallBacks(spi') = << >>
          ELSE /\ lastOp'.result
               /\ outMessage' = Head(mDriverReceiveBuffer.mBuffer)
               /\ CallBacks(spi') =
                    FilterMatchCall(lastOp'.call.inFilterMatchCallBack,
                                    Head(mDriverReceiveBuffer.mBuffer).idx)
                    \o FilterCall(
                         mCallBackFunctionArray[Head(mDriverReceiveBuffer.mBuffer).idx + 1],
                         Head(mDriverReceiveBuffer.mBuffer))]_vars
  /\ [][lastOp'.op # "begin" => mCallBackFunctionArray' = mCallBackFunctionArray]_vars
  /\ [](lastOp.op = "begin" /\ lastOp.result =>
          mCallBackFunctionArray =
            [i \in 1..filterCount(lastOp.call.inFilters) |->
               lastOp.call.inFilters.mFilters[i].mCallBackRoutine])

\* C12 witness (scenario S6): two filters with callbacks 11 and 12, a frame that passed
\* filter 1: the filter-match callback was called with 1, then callback 12 with the frame
C12_Witness ==
  /\ lastOp.op = "dispatchReceivedMessage" /\ lastOp.result
  /\ mCallBackFunctionArray = << 11, 12 >>
  /\ outMessage.idx = 1
  /\ spi[Len(spi) - 1] = Access("inFilterMatchCallBack", 9, 1)
  /\ spi[Len(spi)] = Access("callBackFunction", 12, outMessage)

\* the conditions of lines 163..216 that hold for a call of begin
Violated(inSettings, inInterruptServiceRoutine, inFilters, pinINT) ==
  If(~ inSettings.mBitRateClosedToDesiredRate, "kTooFarFromDesiredBitRate")
    \cup If(~ inSettings.consistent, "kInconsistentBitRateSettings")
    \cup If(pinINT # 255 /\ digitalPinToInterrupt(pinINT) = NOT_AN_INTERRUPT,
            "kINTPinIsNotAnInterrupt")
    \cup If(pinINT # 255 /\ inInterruptServiceRoutine = NULL, "kISRIsNull")
    \cup If(pinINT = 255 /\ inInterruptServiceRoutine # NULL, "kISRNotNullAndNoIntPin")
    \cup If(inSettings.mControllerTXQSize > 32, "kControllerTXQSizeGreaterThan32")
    \cup If(inSettings.mControllerTXQBufferPriority > 31,
            "kControllerTXQPriorityGreaterThan31")
    \cup If(inSettings.mControllerReceiveFIFOSize = 0, "kControllerReceiveFIFOSizeIsZero")
    \cup If(inSettings.mControllerReceiveFIFOSize > 32,
            "kControllerReceiveFIFOSizeGreaterThan32")
    \cup If(inSettings.mControllerTransmitFIFOSize = 0,
            "kControllerTransmitFIFOSizeIsZero")
    \cup If(inSettings.mControllerTransmitFIFOSize > 32,
            "kControllerTransmitFIFOSizeGreaterThan32")
    \cup If(inSettings.mControllerTransmitFIFOPriority > 31,
            "kControllerTransmitFIFOPriorityGreaterThan31")
    \cup If(inSettings.ramUsage > 2048, "kControllerRamUsageGreaterThan2048")
    \cup If(filterCount(inFilters) > 32, "kMoreThan32Filters")
    \cup If(~ inFilters.filtersOk, "kFilterDefinitionError")

\* the conditions that hold for the last call of begin
ViolatedConditions ==
  Violated(lastOp.call.inSettings, lastOp.call.inInterruptServiceRoutine,
           lastOp.call.inFilters, mINT)

\* nothing of the instance or of the controller is other than the constructor left it
AsConstructed ==
  /\ mDriverReceiveBuffer = initWithSize(0)
  /\ mDriverTransmitBuffer = initWithSize(0)
  /\ mCallBackFunctionArray = NoArray
  /\ mUsesTXQ = FALSE
  /\ workerPc = "none"
  /\ attached = FALSE
  /\ controller = PowerOnController

\* C13: validation rejects without side effects: when any of the conditions checked by
\* begin holds, begin returns a non-zero value and makes no SPI transfer, no pin
\* configuration, no host FIFO sizing, no callback installation, no launch of the worker
\* task and no interrupt attach (the trace of the call is empty)
C13_ValidationRejects ==
  lastOp.op = "begin" /\ ViolatedConditions # {} =>
    /\ lastOp.errorCode # {}
    /\ ~ lastOp.result
    /\ spi = << >>
    /\ AsConstructed

\* C13 witness: begin on the worker-task platform with four conditions violated at once,
\* too many filters among them
C13_Witness ==
  /\ lastOp.op = "begin"
  /\ platform = "worker"
  /\ Cardinality(ViolatedConditions) = 4
  /\ {"kMoreThan32Filters", "kISRNotNullAndNoIntPin", "kControllerRamUsageGreaterThan2048"}
       \subseteq ViolatedConditions
  /\ lastOp.errorCode # {}
  /\ spi = << >>

\* C14, as stated: the value begin returns has the bit of each violated condition and of
\* no other condition, and is zero only if no condition is violated
C14_ExactBitset ==
  lastOp.op = "begin" =>
    /\ ViolatedConditions # {} => lastOp.errorCode = ViolatedConditions
    /\ lastOp.errorCode = {} => ViolatedConditions = {}

\* the position of the last read of a byte register in a trace, 0 if it is never read
LastRead(trace, inRegisterAddress) ==
  IF \E i \in 1..Len(trace) : trace[i][1] = "readByte" /\ trace[i][2] = inRegisterAddress
  THEN CHOOSE i \in 1..Len(trace) :
         /\ trace[i][1] = "readByte" /\ trace[i][2] = inRegisterAddress
         /\ \A j \in (i + 1)..Len(trace) :
              ~ (trace[j][1] = "readByte" /\ trace[j][2] = inRegisterAddress)
  ELSE 0

\* the call ended with the poll of a register: only the release of the lock follows it
EndsWithPollOf(trace, inRegisterAddress) ==
  /\ LastRead(trace, inRegisterAddress) > 0
  /\ Len(trace) = LastRead(trace, inRegisterAddress) + 1

\* the kinds of the steps made during an operation
Kinds(trace) == {trace[i][1] : i \in 1..Len(trace)}

\* C15, as stated: a time-out of the configuration-mode poll, of the PLL poll or of the
\* requested-mode poll sets its error bit and no step of begin follows it: no reset after
\* a configuration-mode time-out, no worker task and no interrupt attach after a
\* requested-mode time-out
C15_TimeOutAborts ==
  lastOp.op = "begin" =>
    /\ "kRequestedConfigurationModeTimeOut" \in lastOp.errorCode =>
         /\ EndsWithPollOf(spi, C1CON_REGISTER + 2)
         /\ "reset" \notin Kinds(spi)
    /\ "kX10PLLNotReadyWithin1MS" \in lastOp.errorCode =>
         EndsWithPollOf(spi, OSC_REGISTER + 1)
    /\ "kRequestedModeTimeOut" \in lastOp.errorCode =>
         /\ EndsWithPollOf(spi, C1CON_REGISTER + 2)
         /\ Kinds(spi) \cap {"xTaskCreate", "attachInterrupt"} = {}
         /\ ~ attached
         /\ workerPc = "none"

\* the PLL was asked for and bit 2 of OSC+1 was clear at every poll of the budget
PLLNeverReady ==
  /\ lastOp.op = "begin"
  /\ lastOp.call.inSettings.pll
  /\ ValuesRead(spi, OSC_REGISTER + 1) = [k \in 1..MaxPolls |-> 0]

\* C16 (scenario S5): with a PLL oscillator setting, when bit 2 of OSC+1 stays clear for
\* the whole polling budget, begin returns with the kX10PLLNotReadyWithin1MS bit and goes
\* no further: the last write is the one of OSC, the call ends with the last poll, the host
\* FIFOs are not sized, no filter and no callback is installed, nothing is attached
C16_PLLTimeOut ==
  PLLNeverReady =>
    /\ "kX10PLLNotReadyWithin1MS" \in lastOp.errorCode
    /\ ~ lastOp.result
    /\ EndsWithPollOf(spi, OSC_REGISTER + 1)
    /\ Writes(spi)[Len(Writes(spi))] = Access("writeByte", OSC_REGISTER, 1)
    /\ mDriverReceiveBuffer = initWithSize(0)
    /\ mDriverTransmitBuffer = initWithSize(0)
    /\ mCallBackFunctionArray = NoArray
    /\ controller.filters = {}
    /\ Kinds(spi) \cap {"xTaskCreate", "attachInterrupt", "usingInterrupt"} = {}
    /\ ~ attached
    /\ workerPc = "none"

\* C16 witness: begin on the worker-task platform with the PLL and an INT pin, the
\* controller reached the configuration mode and echoed at 1 MHz, the PLL never locked
C16_Witness ==
  /\ PLLNeverReady
  /\ platform = "worker"
  /\ mINT = 2
  /\ lastOp.call.hw.requestedModeAfter = 0
  /\ lastOp.errorCode = {"kX10PLLNotReadyWithin1MS"}

\* the positions of the writes of RAM_BASE whose read back differs from the value written
Mismatches(trace) ==
  {i \in 1..(Len(trace) - 3) :
     /\ trace[i][1] = "writeWord" /\ trace[i][2] = RAM_BASE
     /\ trace[i + 3][1] = "readWord" /\ trace[i + 3][2] = RAM_BASE
     /\ trace[i + 3][3] # trace[i][3]}

\* the error of the echo test that follows the setting of the oscillator, or precedes it
EchoError(trace) ==
  IF \E i \in 1..Len(trace) : trace[i][1] = "writeByte" /\ trace[i][2] = OSC_REGISTER
  THEN "kReadBackErrorWithFullSpeedSPIClock"
  ELSE "kReadBackErrorWith1MHzSPIClock"

\* C17: when a read back of the RAM at 0x400 differs from the power of two just written,
\* at 1 MHz or at full speed, the echo test stops there (the call ends with that read),
\* begin returns the read-back error of that test, attaches no interrupt, launches no
\* worker task, installs no callback and calls none
C17_EchoFailure ==
  lastOp.op = "begin" =>
    \A i \in Mismatches(spi) :
      /\ Len(spi) = i + 4
      /\ lastOp.errorCode = {EchoError(spi)}
      /\ ~ lastOp.result
      /\ Kinds(spi) \cap {"xTaskCreate", "attachInterrupt", "usingInterrupt",
                          "inFilterMatchCallBack", "callBackFunction"} = {}
      /\ ~ attached
      /\ workerPc = "none"
      /\ mCallBackFunctionArray = NoArray

\* C17 witness: on the worker-task platform the echo test at 1 MHz passed, the one at full
\* speed failed at its second iteration (2 written, 0 read back)
C17_Witness ==
  /\ lastOp.op = "begin"
  /\ platform = "worker"
  /\ lastOp.errorCode = {"kReadBackErrorWithFullSpeedSPIClock"}
  /\ \E i \in Mismatches(spi) : spi[i][3] = 2 /\ spi[i + 3][3] = 0
  /\ Len(SelectSeq(spi, LAMBDA a : a[1] = "readWord")) = MaxEchoBits + 2

\* the kinds of access during which chip-select is low
SPIAccesses ==
  {"writeByte", "readByte", "writeWord", "readWord", "writeObject", "readObject", "reset"}

\* the number of steps of a kind among the first n of a trace
CountOf(trace, kind, n) == Cardinality({j \in 1..n : trace[j][1] = kind})

\* the SPI transaction lock is held at position i: taken once more than released
LockHeld(trace, i) ==
  CountOf(trace, "beginTransaction", i) = CountOf(trace, "endTransaction", i) + 1

\* C18, as stated: every SPI access of an operation of the driver (chip-select low) lies
\* between beginTransaction and the matching endTransaction of that operation
C18_LockBracketing ==
  \A i \in 1..Len(spi) : spi[i][1] \in SPIAccesses => LockHeld(spi, i)

\* C19: on the worker-task platform isr only gives one permit (none when the semaphore is
\* full) and makes no SPI access and no FIFO access; the worker task takes a permit, then
\* calls isr_core again and again, and goes back to waiting only right after a call of
\* isr_core that returned false; a permit given is followed by a call of isr_core
C19_WorkerLoop ==
  /\ [][lastOp'.op = "isr" =>
          /\ permits' = Given(permits)
          /\ spi' = << >>
          /\ UNCHANGED << driverVars, controller, historyVars, workerPc >>]_vars
  /\ [][workerPc = "waiting" /\ workerPc' # "waiting" =>
          workerPc' = "loop" /\ permits > 0 /\ permits' = permits - 1]_vars
  /\ [][lastOp'.op = "task" =>
          /\ workerPc = "loop"
          /\ lastOp'.result => workerPc' = "loop"]_vars
  /\ [][workerPc = "loop" /\ workerPc' # "loop" =>
          workerPc' = "waiting" /\ lastOp'.op = "task" /\ ~ lastOp'.result]_vars
  /\ (permits > 0) ~> (lastOp.op = "task")

\* C19 witness: the task took the permit isr gave, read a frame with a first call of
\* isr_core, and is back waiting after a call that returned false, with a permit of poll
\* pending
C19_Witness ==
  /\ platform = "worker"
  /\ lastOp.op = "task" /\ ~ lastOp.result
  /\ workerPc = "waiting"
  /\ count(mDriverReceiveBuffer) = 1
  /\ permits = 1

\* C20, as stated: the loop of poll ends after a bounded number of turns: the calls of
\* isr_core that returned true since poll began are at most the free space of the host RX
\* FIFO plus the number of frames in the host TX FIFO, both taken when poll began, plus one
C20_PollBound == pollCalls <= pollBound

\* the step is a call of isr_core, by isr, by poll or by the worker task
IsrCoreRuns == lastOp'.op \in {"isr", "poll", "task"} /\ Len(spi') > 0

\* the reads of a 32-bit register during an operation, in order
WordsRead(trace, inRegisterAddress) ==
  SelectSeq(trace, LAMBDA a : a[1] = "readWord" /\ a[2] = inRegisterAddress)

\* the positions of the steps of a kind in a trace
Positions(trace, kind) == {i \in 1..Len(trace) : trace[i][1] = kind}

\* the clearing writes that answer the bits 2, 3 and 12 of a value of C1INT
ClearingWrites(intReg) ==
  (IF BitAnd(intReg, 4) # 0 THEN << Access("writeByte", C1INT_REGISTER, 4) >> ELSE << >>)
    \o (IF BitAnd(intReg, 8) # 0 THEN << Access("writeByte", C1INT_REGISTER, 8) >>
         ELSE << >>)
    \o (IF BitAnd(intReg, 4096) # 0
         THEN << Access("writeByte", C1INT_REGISTER + 1, 16) >> ELSE << >>)

\* C21: isr_core reads C1INT once and returns true iff bit 1 (RX) or bit 0 (TX) is set in
\* the value read; the RX handler runs at most once (one message object read) and the TX
\* handler at most once (one message object written), RX before TX; when only bits 2, 3 or
\* 12 are set the only writes are the clearing writes 1<<2 to C1INT, 1<<3 to C1INT and
\* 1<<4 to C1INT+1, both host FIFOs, the flag and the controller are unchanged, and false
\* is returned
C21_IsrCore ==
  [][IsrCoreRuns =>
       /\ WordsRead(spi', C1INT_REGISTER)
            = << Access("readWord", C1INT_REGISTER, lastOp'.intReg) >>
       /\ lastOp'.result <=>
            (BitAnd(lastOp'.intReg, 2) # 0 \/ BitAnd(lastOp'.intReg, 1) # 0)
       /\ Cardinality(Positions(spi', "readObject"))
            = (IF BitAnd(lastOp'.intReg, 2) # 0 THEN 1 ELSE 0)
       /\ Cardinality(Positions(spi', "writeObject"))
            = (IF BitAnd(lastOp'.intReg, 1) # 0 THEN 1 ELSE 0)
       /\ \A i \in Positions(spi', "readObject"), j \in Positions(spi', "writeObject") :
            i < j
       /\ BitAnd(lastOp'.intReg, 3) = 0 =>
            /\ Writes(spi') = ClearingWrites(lastOp'.intReg)
            /\ driverVars' = driverVars
            /\ controller' = controller
            /\ ~ lastOp'.result]_vars

\* C21 witness: poll found bits 2, 3 and 12 of C1INT set and no RX or TX interrupt: three
\* clearing writes, false returned
C21_Witness ==
  /\ lastOp.op = "poll"
  /\ lastOp.intReg = 4108
  /\ ~ lastOp.result
  /\ Len(Writes(spi)) = 3
  /\ phase = "running"

\* the frames returned so far are the decoded first objects the RX handler read
ReturnedIsPrefix ==
  /\ Len(returned) <= Len(rxRead)
  /\ \A i \in 1..Len(returned) : returned[i] = DecodeMessageObject(rxRead[i])

\* the RX handler appended the frame of the object it read
RxHandlerAppended ==
  /\ lastOp'.op \in {"isr", "poll", "task"}
  /\ BitAnd(lastOp'.intReg, 2) # 0
  /\ Len(rxRead') = Len(rxRead) + 1
  /\ mDriverReceiveBuffer' =
       [mDriverReceiveBuffer EXCEPT
          !.mBuffer = Append(@, DecodeMessageObject(rxRead'[Len(rxRead')]))]

\* receive removed the oldest frame and returned it
ReceiveRemoved ==
  /\ lastOp'.op = "receive"
  /\ lastOp'.result
  /\ count(mDriverReceiveBuffer) > 0
  /\ mDriverReceiveBuffer' = [mDriverReceiveBuffer EXCEPT !.mBuffer = Tail(@)]
  /\ outMessage' = Head(mDriverReceiveBuffer.mBuffer)
  /\ returned' = Append(returned, outMessage')

\* C22: once begin has succeeded the host RX FIFO is appended to only by the RX handler
\* and removed from only by receive (tryToSend, available, the TX handler and what poll
\* does besides the RX handler leave it unchanged), and the frames the successful calls
\* of receive returned are, in order and without duplication, a prefix of the message
\* objects the RX handler read
C22_RxFIFOFlow ==
  /\ [](phase = "running" => ReturnedIsPrefix)
  /\ [][phase = "running" /\ mDriverReceiveBuffer' # mDriverReceiveBuffer =>
          RxHandlerAppended \/ ReceiveRemoved]_vars
  /\ [][phase = "running" /\ returned' # returned => ReceiveRemoved]_vars

\* C22 witness: two different frames were returned by receive, in the order the RX handler
\* read their objects, and a third object has been read since
C22_Witness ==
  /\ phase = "running"
  /\ Len(returned) = 2
  /\ returned[1] # returned[2]
  /\ Len(rxRead) = 3
  /\ ReturnedIsPrefix

\* the step changes neither a field of the driver nor the controller, and writes nothing
ChangesNothing ==
  /\ driverVars' = driverVars
  /\ controller' = controller
  /\ Writes(spi') = << >>
  /\ returned' = returned

\* C23: receive returns false iff the host RX FIFO is empty, and then writes nothing
\* through SPI and changes no state; when it returns true it removes exactly the oldest
\* frame and writes 0x01 to C1FIFOCON(1) exactly once; available returns true iff the host
\* RX FIFO is not empty and changes nothing
C23_ReceiveAvailable ==
  [][/\ lastOp'.op = "receive" =>
          /\ lastOp'.result <=> count(mDriverReceiveBuffer) > 0
          /\ ~ lastOp'.result => ChangesNothing
          /\ lastOp'.result =>
               /\ ReceiveRemoved
               /\ Writes(spi')
                    = << Access("writeByte", C1FIFOCON_REGISTER(receiveFIFOIndex), 1) >>
               /\ mDriverTransmitBuffer' = mDriverTransmitBuffer
               /\ mControllerTxFIFOFull' = mControllerTxFIFOFull
     /\ lastOp'.op = "available" =>
          /\ lastOp'.result <=> count(mDriverReceiveBuffer) > 0
          /\ ChangesNothing]_vars

\* C23 witness: receive returned true from a host RX FIFO that held two frames; the newer
\* one is still there
C23_Witness ==
  /\ lastOp.op = "receive"
  /\ lastOp.result
  /\ count(mDriverReceiveBuffer) = 1
  /\ outMessage # Head(mDriverReceiveBuffer.mBuffer)
  /\ Len(returned) = 1
  /\ Writes(spi) = << Access("writeByte", C1FIFOCON_REGISTER(receiveFIFOIndex), 1) >>

\* tryToSend appended its frame to the host TX FIFO, the flag being true
TryToSendAppended ==
  /\ lastOp'.op = "tryToSend"
  /\ lastOp'.result
  /\ mControllerTxFIFOFull
  /\ mDriverTransmitBuffer' =
       [mDriverTransmitBuffer EXCEPT !.mBuffer = Append(@, lastOp'.message)]

\* the TX handler removed the oldest frame of the host TX FIFO
TxHandlerRemoved ==
  /\ lastOp'.op \in {"isr", "poll", "task"}
  /\ BitAnd(lastOp'.intReg, 1) # 0
  /\ count(mDriverTransmitBuffer) > 0
  /\ mDriverTransmitBuffer' = [mDriverTransmitBuffer EXCEPT !.mBuffer = Tail(@)]

\* C24: once begin has succeeded, whenever the host TX FIFO holds a frame the flag
\* mControllerTxFIFOFull is true and the last value written to C1FIFOCON(2) is 0x81 (the
\* not-full interrupt is enabled); a frame is added to the host TX FIFO only by tryToSend,
\* the flag being true, and removed only by the TX handler
C24_TxFIFOFlag ==
  /\ [](phase = "running" /\ count(mDriverTransmitBuffer) > 0 =>
          mControllerTxFIFOFull /\ controller.con2 = 129)
  /\ [][phase = "running" /\ mDriverTransmitBuffer' # mDriverTransmitBuffer =>
          TryToSendAppended \/ TxHandlerRemoved]_vars

\* C24 witness: the TX handler has taken the older of two frames of the host TX FIFO; the
\* newer one waits, the flag is true and the not-full interrupt is enabled
C24_Witness ==
  /\ phase = "running"
  /\ lastOp.op \in {"isr", "poll"}
  /\ BitAnd(lastOp.intReg, 1) # 0
  /\ count(mDriverTransmitBuffer) = 1
  /\ size(mDriverTransmitBuffer) = 2
  /\ mControllerTxFIFOFull
  /\ controller.con2 = 129

\* the operation that ended took the SPI lock first and released it last
HeldLockThroughout(trace) ==
  /\ Len(trace) >= 2
  /\ trace[1][1] = "beginTransaction"
  /\ trace[Len(trace)][1] = "endTransaction"
  /\ \A i \in 2..(Len(trace) - 1) :
       trace[i][1] \notin {"beginTransaction", "endTransaction"}

\* C25: the body of isr_core never runs while the application is inside the section of
\* tryToSend, available or receive that uses the host RX FIFO, the host TX FIFO or
\* mControllerTxFIFOFull; on the worker-task platform each of these sections and isr_core
\* holds the SPI transaction lock from its first access to its last; on the inline
\* platform isr_core does not interrupt these sections
C25_MutualExclusion ==
  /\ [](~ (pc \in Sections /\ InCore))
  /\ [](pc \in Sections /\ platform = "worker" => TakesMutex(BracketOf(pc)))
  /\ [](pc \in Sections /\ platform = "inline" /\ attached => MasksInterrupt(BracketOf(pc)))
  /\ [][platform = "worker" /\ lastOp'.op \in {"tryToSend", "available", "receive", "task"}
          /\ lastOp' # lastOp
          => HeldLockThroughout(spi')]_vars

\* C25 witness (worker platform): the task is inside its loop and INT is low, the application is inside receive
C25_Witness ==
  /\ platform = "worker"
  /\ pc = "receive"
  /\ workerPc = "loop"
  /\ INTLow(controller)
  /\ count(mDriverReceiveBuffer) > 0

\* C25 witness (inline platform): the interrupt is attached, INT is low and the
\* application is inside tryToSend
C25_WitnessInline ==
  /\ platform = "inline"
  /\ pc = "tryToSend"
  /\ attached
  /\ INTLow(controller)

\* C26, as stated: on the worker-task platform, with the interrupt attached on the falling
\* edge and without any call of poll, whenever after a successful begin the controller
\* holds INT low for a pending enabled RX or TX interrupt, the worker task eventually
\* executes isr_core and services it
C26_NoLostWakeUp ==
  (phase = "running" /\ attached /\ INTLow(controller))
    ~> (lastOp.op = "task" /\ lastOp.result)

\* the registers that configure the TXQ, the receive FIFO, the transmit FIFO, the filters,
\* the interrupt enables and the bit timing
ConfigurationRegisters ==
  {C1TXQCON_REGISTER + 2, C1TXQCON_REGISTER + 3, C1CON_REGISTER + 2,
   C1FIFOCON_REGISTER(1), C1FIFOCON_REGISTER(1) + 3,
   C1FIFOCON_REGISTER(2), C1FIFOCON_REGISTER(2) + 2, C1FIFOCON_REGISTER(2) + 3,
   C1INT_REGISTER + 2, C1INT_REGISTER + 3, C1NBTCFG_REGISTER}
    \cup {C1FLTCON_REGISTER(k) : k \in 0..31}
    \cup {C1FLTOBJ_REGISTER(k) : k \in 0..31}
    \cup {C1MASK_REGISTER(k) : k \in 0..31}

\* the positions of the writes to these registers
ConfigurationWrites(trace) ==
  {i \in 1..Len(trace) :
     trace[i][1] \in {"writeByte", "writeWord"} /\ trace[i][2] \in ConfigurationRegisters}

\* the positions of the writes to C1CON+3 that follow the reset: the requested mode
ModeRequests(trace) ==
  {i \in 1..Len(trace) :
     /\ trace[i][1] = "writeByte" /\ trace[i][2] = C1CON_REGISTER + 3
     /\ \E j \in 1..(i - 1) : trace[j][1] = "reset"}

\* before position p: configuration mode was read in C1CON+2, the reset was sent, and the
\* two echo tests were made to their end without a mismatch
BroughtUpBefore(trace, p) ==
  /\ \E q \in 1..(p - 1) :
       /\ trace[q][1] = "readByte" /\ trace[q][2] = C1CON_REGISTER + 2
       /\ BitAnd(Shr(trace[q][3], 5), 7) = 4
  /\ \E q \in 1..(p - 1) : trace[q][1] = "reset"
  /\ Len(WordsRead(SubSeq(trace, 1, p), RAM_BASE)) = 2 * MaxEchoBits
  /\ Mismatches(SubSeq(trace, 1, p)) = {}

\* C27: during begin every write that configures the TXQ, the receive FIFO, the transmit
\* FIFO, the filters, the interrupt enables or C1NBTCFG comes after configuration mode was
\* observed, after the reset and after both echo tests passed, and before the write of
\* the requested mode to C1CON+3; the interrupt is attached only after the last poll of
\* the requested mode
C27_BringUpOrder ==
  lastOp.op = "begin" =>
    /\ \A p \in ConfigurationWrites(spi) :
         /\ BroughtUpBefore(spi, p)
         /\ ModeRequests(spi) # {}
         /\ \A m \in ModeRequests(spi) : p < m
    /\ \A a \in Positions(spi, "attachInterrupt") :
         /\ ModeRequests(spi) # {}
         /\ \A m \in ModeRequests(spi) : m < LastRead(spi, C1CON_REGISTER + 2)
         /\ LastRead(spi, C1CON_REGISTER + 2) < a

\* C27 witness: a begin with the PLL and the TXQ that succeeded and attached the interrupt
\* after one poll of the requested mode that did not show it yet
C27_Witness ==
  /\ lastOp.op = "begin"
  /\ lastOp.result
  /\ mUsesTXQ
  /\ Positions(spi, "attachInterrupt") # {}
  /\ Cardinality(ConfigurationWrites(spi)) > 10
  /\ \E q \in 1..Len(spi) :
       /\ spi[q][1] = "readByte" /\ spi[q][2] = OSC_REGISTER + 1
  /\ \E m \in ModeRequests(spi) :
       Cardinality({q \in (m + 1)..Len(spi) :
                      spi[q][1] = "readByte" /\ spi[q][2] = C1CON_REGISTER + 2}) = 2

\* C28, as stated: every frame committed to the controller TX FIFO was given to a call of
\* tryToSend (index 0) that returned true, and is committed exactly once; a TX interrupt
\* that finds the host TX FIFO empty commits no frame
C28_NoSpuriousFrame ==
  /\ [](phase = "running" =>
          \A i \in 1..Len(committed) :
            /\ \E j \in 1..Len(accepted) : accepted[j] = committed[i]
            /\ \A k \in 1..Len(committed) : committed[k] = committed[i] => k = i)
  /\ [][TxHandlerRuns /\ count(mDriverTransmitBuffer) = 0 => committed' = committed]_vars

\* the step is a call of isr_core in which the RX handler runs
RxHandlerRuns == IsrCoreRuns /\ BitAnd(lastOp'.intReg, 2) # 0

\* C29: after a successful begin with a host RX FIFO of at least one slot, the RX handler
\* never runs while the host RX FIFO is full: every message object it consumes (UINC on
\* FIFO1) is appended to the host RX FIFO, whatever the interleaving of RX interrupts,
\* poll and receive
C29_NoFrameDropped ==
  [][phase = "running" /\ size(mDriverReceiveBuffer) >= 1 /\ RxHandlerRuns =>
       /\ count(mDriverReceiveBuffer) < size(mDriverReceiveBuffer)
       /\ Cardinality(Positions(spi', "readObject")) = 1
       /\ RxHandlerAppended
       /\ rxSource' = Append(rxSource, rxRead'[Len(rxRead')])
       /\ Len(controller'.fifo1) = Len(controller.fifo1) - 1]_vars

\* C29 witness: the RX handler has just filled the host RX FIFO of two slots and disabled
\* the not-empty interrupt; a further frame waits in FIFO1 of the controller
C29_Witness ==
  /\ phase = "running"
  /\ lastOp.op \in {"isr", "poll"}
  /\ BitAnd(lastOp.intReg, 2) # 0
  /\ size(mDriverReceiveBuffer) = 2
  /\ count(mDriverReceiveBuffer) = 2
  /\ controller.con1 = 0
  /\ Len(controller.fifo1) > 0
  /\ Len(rxRead) = 2

\* C30: provided the controller goes on freeing slots of its TX FIFO and the pending
\* interrupts go on being served, every frame for which tryToSend (index 0) returned true
\* is eventually committed to the controller TX FIFO, and mControllerTxFIFOFull eventually
\* becomes false once the application has stopped sending
C30_TxProgress ==
  /\ \A k \in 1..MaxFrames :
       (phase = "running" /\ Len(accepted) >= k)
         ~> (Len(accepted) >= k /\ \E i \in 1..Len(committed) : committed[i] = accepted[k])
  /\ (phase = "running" /\ mControllerTxFIFOFull /\ ~ MoreFrames)
       ~> (~ mControllerTxFIFOFull)

\* C30 witness: three frames were accepted, two of them waited in the host TX FIFO; all
\* three are committed and the flag is false again
C30_Witness ==
  /\ phase = "running"
  /\ Len(accepted) = 3
  /\ size(mDriverTransmitBuffer) = 2
  /\ controller.txSize = 1
  /\ SentCommitted = accepted
  /\ ~ mControllerTxFIFOFull
  /\ lastOp.op \in {"isr", "poll"}

\* the size of the TXQ begin was called with
TXQSizeAsked == lastOp.call.inSettings.mControllerTXQSize

\* C31, as stated: for every TXQ size that passes the checks (0..32) the byte begin writes
\* to C1TXQCON+3 has bits 5..7 equal to 0 (8 data bytes) and bits 0..4 equal to the size
\* minus one, without 8-bit wrap-around; and mUsesTXQ is true iff the size is not 0
C31_TXQSizeByte ==
  lastOp.op = "begin" /\ lastOp.result =>
    /\ Len(ValuesWritten(spi, C1TXQCON_REGISTER + 3)) = 1
    /\ \A i \in 1..Len(ValuesWritten(spi, C1TXQCON_REGISTER + 3)) :
         /\ ValuesWritten(spi, C1TXQCON_REGISTER + 3)[i] \div 32 = 0
         /\ ValuesWritten(spi, C1TXQCON_REGISTER + 3)[i] % 32 = TXQSizeAsked - 1
    /\ mUsesTXQ <=> TXQSizeAsked > 0

\* the step is a call of tryToSend with send index 0 that follows a begin that returned 0
TryToSendAfterBegin ==
  /\ lastOp.op = "begin" /\ lastOp.result
  /\ lastOp'.op = "tryToSend"
  /\ lastOp'.message.idx = 0

\* C32: every begin that returns 0, a second begin on an instance that has been brought up
\* and used included, leaves mControllerTxFIFOFull false (as the 0x80 it wrote to
\* C1FIFOCON(2) says) and both host FIFOs empty, and a following tryToSend with index 0
\* writes its frame directly to the controller TX FIFO
C32_BeginRestoresInitialState ==
  /\ [](lastOp.op = "begin" /\ lastOp.result =>
          /\ ~ mControllerTxFIFOFull
          /\ ValuesWritten(spi, C1FIFOCON_REGISTER(2)) = << 128 >>
          /\ controller.con2 = 128
          /\ count(mDriverTransmitBuffer) = 0
          /\ count(mDriverReceiveBuffer) = 0)
  /\ [][TryToSendAfterBegin =>
          /\ lastOp'.result
          /\ CommitsOne(spi', lastOp'.message)
          /\ controller'.fifo2 = << MessageObject(lastOp'.message) >>
          /\ count(mDriverTransmitBuffer') = 0]_vars

====
